---- MODULE Spec2Model ----
(***************************************************************************)
(* The provider router of electron/LLMHelper.ts: the provider flags,       *)
(* credentials and clients of one LLMHelper object, the retry/failover     *)
(* controller generateContentWithRetry, the provider switches and the      *)
(* local-model initialisation, with the asynchronous operations            *)
(* interleaved at their await points.                                      *)
(*                                                                         *)
(* Strings that the code trims (credentials) are sequences of characters;  *)
(* an error message is the set of classification markers it contains.      *)
(***************************************************************************)
EXTENDS Integers, Sequences, FiniteSets, TLC

VARIABLES
    useOllama,          \* LLMHelper.useOllama
    useOpenRouter,      \* LLMHelper.useOpenRouter
    ollamaModel,        \* LLMHelper.ollamaModel
    ollamaUrl,          \* LLMHelper.ollamaUrl
    geminiModel,        \* LLMHelper.geminiModel
    openRouterModel,    \* LLMHelper.openRouterModel
    geminiApiKey,       \* LLMHelper.geminiApiKey
    openRouterApiKey,   \* LLMHelper.openRouterApiKey
    usingFallbackKey,   \* LLMHelper.usingFallbackKey
    model,              \* LLMHelper.model: the key the client was built with, or Null
    geminiVoiceClient,  \* LLMHelper.geminiVoiceClient: likewise
    envGemini,          \* process.env.GEMINI_API_KEY
    ctor,               \* the construction: who constructed, with what, and whether it raised
    calls,              \* the in-flight operations, one record per slot
    init,               \* the in-flight initializeOllamaModel run
    sw,                 \* the last switch operation: its arguments and outcome
    nswaps,             \* number of credential swaps executed so far
    nswitch,            \* number of switch operations invoked so far
    ncalls,             \* number of operations invoked so far
    voice,              \* the voice pipeline: its position, what it invoked
                        \* and sent, and the problem info of the app state
    screens,            \* processScreenshots: its position, what it sent, the
                        \* abort controllers and hasDebugged
    selector            \* the model selector: its connection status and the
                        \* request it awaits

router == <<useOllama, useOpenRouter, ollamaModel, ollamaUrl, geminiModel,
            openRouterModel, geminiApiKey, openRouterApiKey, usingFallbackKey,
            model, geminiVoiceClient>>

vars == <<useOllama, useOpenRouter, ollamaModel, ollamaUrl, geminiModel,
          openRouterModel, geminiApiKey, openRouterApiKey, usingFallbackKey,
          model, geminiVoiceClient, envGemini, ctor, calls, init, sw, nswaps,
          nswitch, ncalls, voice, screens, selector>>

----------------------------------------------------------------------------
(* Bounds of the model.                                                    *)

\* operations invoked in one run, and switch operations invoked in one run
MaxCalls == 2
MaxSwitches == 1

\* runs of the voice pipeline in one run of the model
MaxRuns == 2

\* the slots of the operations in flight: one operation at a time in Spec,
\* two overlapping operations in SpecConc
Slots == {1}
ConcSlots == {1, 2}

----------------------------------------------------------------------------
(* Strings.                                                                *)

Null == <<"null">>
Undefined == <<"undefined">>
Empty == <<>>

\* the line feed and backquote characters
Newline == "LF"
Backquote == "BQ"

\* the white space that trim() removes
IsSpace(ch) == ch \in {" ", Newline, "TAB"}

RECURSIVE TrimStart(_)
TrimStart(s) ==
    IF s # <<>> /\ IsSpace(Head(s)) THEN TrimStart(Tail(s)) ELSE s

RECURSIVE TrimEnd(_)
TrimEnd(s) ==
    IF s # <<>> /\ IsSpace(s[Len(s)]) THEN TrimEnd(SubSeq(s, 1, Len(s) - 1)) ELSE s

Trim(s) == TrimEnd(TrimStart(s))

\* a || b on strings: the first operand unless it is the empty string
OrElse(a, b) == IF a # Empty THEN a ELSE b

StartsWith(s, prefix) ==
    Len(s) >= Len(prefix) /\ SubSeq(s, 1, Len(prefix)) = prefix

EndsWith(s, suffix) ==
    Len(s) >= Len(suffix) /\ SubSeq(s, Len(s) - Len(suffix) + 1, Len(s)) = suffix

----------------------------------------------------------------------------
(* Response texts.                                                         *)

\* the three backquotes of a code fence
Fence == <<Backquote, Backquote, Backquote>>
JsonTag == <<"j", "s", "o", "n">>

StripLeadingFenceTagged(text) ==
    IF StartsWith(text, Fence \o JsonTag \o <<Newline>>)
    THEN SubSeq(text, Len(Fence) + Len(JsonTag) + 2, Len(text))
    ELSE text

\* the first replace: a fence, an optional json tag and a line feed at the
\* start of the text are removed
StripLeadingFence(text) ==
    IF StartsWith(text, Fence \o JsonTag \o <<Newline>>)
    THEN SubSeq(text, Len(Fence) + Len(JsonTag) + 2, Len(text))
    ELSE IF StartsWith(text, Fence \o <<Newline>>)
    THEN SubSeq(text, Len(Fence) + 2, Len(text))
    ELSE text

\* the second replace: a line feed and a fence at the end of the text are
\* removed
StripTrailingFence(text) ==
    IF EndsWith(text, <<Newline>> \o Fence)
    THEN SubSeq(text, 1, Len(text) - (Len(Fence) + 1))
    ELSE text

cleanJsonResponse(text) == Trim(StripTrailingFence(StripLeadingFence(text)))

JsonObject == <<"object">>
JsonObjectText == <<"{", "}">>
JsonNullText == <<"n", "u", "l", "l">>
\* an object with a solution field, as the prompt of generateSolution asks
SolutionObject == <<"solution">>
SolutionObjectText == <<"{", "s", "}">>

\* JSON.parse on the texts of the model: white space around the value is
\* skipped; {} is an object, null is null, {s} stands for an object with a
\* solution, every other text of the model is a syntax error
JsonParse(text) ==
    LET t == Trim(text)
    IN  IF t = JsonObjectText THEN [ok |-> TRUE, value |-> JsonObject]
        ELSE IF t = JsonNullText THEN [ok |-> TRUE, value |-> Null]
        ELSE IF t = SolutionObjectText THEN [ok |-> TRUE, value |-> SolutionObject]
        ELSE [ok |-> FALSE, value |-> Undefined]

----------------------------------------------------------------------------
(* Program constants.                                                      *)

FallbackGeminiApiKey == <<"F">>
DefaultOllamaModel == "llama3.2"
DefaultOllamaUrl == "http://localhost:11434"
CtorOllamaModel == "gemma:latest"
DefaultGeminiModel == "models/gemini-2.5-flash"
DefaultOpenRouterModel == "google/gemini-2.5-flash"
maxRetries == 3
InitialDelay == 1000

RateLimitMarkers == {"429", "quota", "RATE_LIMIT", "RESOURCE_EXHAUSTED"}
OverloadMarker == "503"
NoClientMessage == {"No LLM client configured"}
NoKeyMessage == {"Gemini API key is required for voice features"}
NoProviderMessage == {"No LLM provider configured"}
TypeErrorMessage == {"Cannot read properties of undefined"}

----------------------------------------------------------------------------
(* Inputs.                                                                 *)

\* failure messages of the cloud provider: rate-limited, overloaded, both,
\* neither
FailMessages == { {"429"}, {"503"}, {"503", "quota"}, {"500"} }

\* the environments the process may start in: USE_OLLAMA, OLLAMA_MODEL,
\* OPENROUTER_API_KEY, GEMINI_API_KEY (an unset variable is the empty string)
Environments == {
    [ useOllama |-> TRUE,  ollamaModel |-> "",  openRouter |-> <<>>,         gemini |-> <<>> ],
    [ useOllama |-> TRUE,  ollamaModel |-> "X", openRouter |-> <<"r", " ">>, gemini |-> <<"e">> ],
    [ useOllama |-> FALSE, ollamaModel |-> "",  openRouter |-> <<"r", " ">>, gemini |-> <<>> ],
    [ useOllama |-> FALSE, ollamaModel |-> "",  openRouter |-> <<>>,         gemini |-> <<"e">> ],
    [ useOllama |-> FALSE, ollamaModel |-> "",  openRouter |-> <<>>,         gemini |-> <<" ">> ] }

\* arguments of the switch operations (an absent argument is the empty string)
GeminiSwitchInputs == {
    [ apiKey |-> <<>>,         model |-> "" ],
    [ apiKey |-> <<" ">>,      model |-> "m" ],
    [ apiKey |-> <<" ", "a">>, model |-> "" ] }
OpenRouterSwitchInputs == {
    [ apiKey |-> <<>>,         model |-> "" ],
    [ apiKey |-> <<"r", " ">>, model |-> "m" ] }
OllamaSwitchInputs == { [ model |-> "X", url |-> "" ] }
UrlInputs == { "", "u" }

\* the texts a provider may answer with: a body as it is, padded with white
\* space, wrapped in a code fence with or without the json tag, or wrapped
\* in a code fence that has white space before it or a line feed after it;
\* and no text at all
Bodies == { <<>>, JsonObjectText, JsonNullText, <<"{">>, <<"h", "i">> }
Wrappers == { "plain", "padded", "fence", "jsonFence", "paddedFence", "fenceNewline" }

Wrap(w, body) ==
    IF w = "plain" THEN body
    ELSE IF w = "padded" THEN <<" ">> \o body \o <<Newline, " ">>
    ELSE IF w = "fence" THEN Fence \o <<Newline>> \o body \o <<Newline>> \o Fence
    ELSE IF w = "jsonFence"
    THEN Fence \o JsonTag \o <<Newline>> \o body \o <<Newline>> \o Fence
    ELSE IF w = "paddedFence"
    THEN <<" ">> \o Fence \o JsonTag \o <<Newline>> \o body \o <<Newline>> \o Fence \o <<" ">>
    ELSE Fence \o JsonTag \o <<Newline>> \o body \o <<Newline>> \o Fence \o <<Newline>>

Absent == Undefined

Texts == { Absent } \cup { Wrap(w, body) : w \in Wrappers, body \in Bodies }

\* the model lists the local server may hold
ModelLists == { <<>>, <<"Y", "X">> }

\* what GET /api/tags may answer given those lists: no answer (the fetch
\* rejects), a non-2xx status, a body without a models field, or the list
TagsAnswers(lists) ==
    { [ reached |-> FALSE, ok |-> FALSE, models |-> Undefined ],
      [ reached |-> TRUE,  ok |-> FALSE, models |-> Undefined ],
      [ reached |-> TRUE,  ok |-> TRUE,  models |-> Undefined ] }
    \cup { [ reached |-> TRUE, ok |-> TRUE, models |-> l ] : l \in lists }

\* arguments of new LLMHelper(...) and the environment it may find
CtorApiKeys == { <<>>, <<" ">>, <<"a", " ">> }
CtorOllamaModels == { "", "X" }
CtorOpenRouterKeys == { <<>>, <<"r", " ">> }
EnvGeminiKeys == { <<>>, <<" ", "e">> }
EnvOpenRouterKeys == { <<>>, <<"o">> }

\* the environments ProcessingHelper may start in, those without any
\* provider and those with a blank credential included
StartEnvironments ==
    Environments \cup {
    [ useOllama |-> FALSE, ollamaModel |-> "",  openRouter |-> <<>>,    gemini |-> <<>> ],
    [ useOllama |-> FALSE, ollamaModel |-> "",  openRouter |-> <<" ">>, gemini |-> <<"e">> ] }

----------------------------------------------------------------------------
(* Construction.                                                           *)

\* new LLMHelper(apiKey, useOllama, ollamaModel, ollamaUrl, useOpenRouter,
\*               openRouterApiKey, openRouterModel); an absent argument is
\* the empty string
CtorGeminiKeyEnvFirst(apiKey, envG) ==
    OrElse(Trim(envG), OrElse(Trim(apiKey), Empty))

\* the cloud credential before the fallback: the trimmed argument, else the
\* trimmed environment credential, else none
CtorGeminiKey(apiKey, envG) ==
    OrElse(Trim(apiKey), OrElse(Trim(envG), Empty))

LLMHelperCtor(apiKey, pUseOllama, pOllamaModel, pOllamaUrl, pUseOpenRouter, pOpenRouterApiKey, pOpenRouterModel, envG, envOR) ==
    LET key0 == CtorGeminiKey(apiKey, envG)
        fb   == key0 = Empty /\ ~pUseOllama /\ ~pUseOpenRouter
        key  == IF fb THEN FallbackGeminiApiKey ELSE key0
        local == ~pUseOpenRouter /\ pUseOllama
    IN  [ useOllama        |-> pUseOllama,
          useOpenRouter    |-> pUseOpenRouter,
          geminiApiKey     |-> key,
          usingFallbackKey |-> fb,
          openRouterApiKey |-> OrElse(Trim(pOpenRouterApiKey), OrElse(Trim(envOR), Empty)),
          openRouterModel  |-> IF pOpenRouterModel # "" THEN pOpenRouterModel
                               ELSE DefaultOpenRouterModel,
          ollamaUrl        |-> IF local /\ pOllamaUrl # "" THEN pOllamaUrl
                               ELSE DefaultOllamaUrl,
          ollamaModel      |-> IF local
                               THEN (IF pOllamaModel # "" THEN pOllamaModel
                                     ELSE CtorOllamaModel)
                               ELSE DefaultOllamaModel,
          model            |-> IF ~pUseOpenRouter /\ ~pUseOllama /\ key # Empty
                               THEN key ELSE Null,
          startsInit       |-> local,
          throws           |-> ~pUseOpenRouter /\ ~pUseOllama /\ key = Empty ]

ProcessingHelperCtorGatewayFirst(envUseOllama, envOllamaModel, envOR, envG) ==
    IF envOR # Empty
    THEN LLMHelperCtor(Empty, FALSE, "", "", TRUE, envOR,
                       DefaultOpenRouterModel, envG, envOR)
    ELSE IF envUseOllama
    THEN LLMHelperCtor(Empty, TRUE, envOllamaModel, DefaultOllamaUrl, FALSE,
                       Empty, "", envG, envOR)
    ELSE IF envG = Empty
    THEN [ throws |-> TRUE ]
    ELSE LLMHelperCtor(envG, FALSE, "", "", FALSE, Empty, "", envG, envOR)

\* new ProcessingHelper(appState): the provider is chosen from the environment
ProcessingHelperCtor(envUseOllama, envOllamaModel, envOR, envG) ==
    IF envUseOllama
    THEN LLMHelperCtor(Empty, TRUE, envOllamaModel, DefaultOllamaUrl, FALSE,
                       Empty, "", envG, envOR)
    ELSE IF envOR # Empty
    THEN LLMHelperCtor(Empty, FALSE, "", "", TRUE, envOR,
                       DefaultOpenRouterModel, envG, envOR)
    ELSE IF envG = Empty
    THEN [ throws |-> TRUE ]
    ELSE LLMHelperCtor(envG, FALSE, "", "", FALSE, Empty, "", envG, envOR)

\* the fields of the class before its constructor runs; a construction that
\* raises leaves no object
Unconstructed ==
    [ useOllama        |-> FALSE,
      useOpenRouter    |-> FALSE,
      geminiApiKey     |-> Empty,
      usingFallbackKey |-> FALSE,
      openRouterApiKey |-> Empty,
      openRouterModel  |-> DefaultOpenRouterModel,
      ollamaUrl        |-> DefaultOllamaUrl,
      ollamaModel      |-> DefaultOllamaModel,
      model            |-> Null,
      startsInit       |-> FALSE,
      throws           |-> TRUE ]

\* the record of a construction: the constructor called, the arguments
\* LLMHelper received, the OPENROUTER_API_KEY of the environment, and whether
\* the construction raised
Construction(by, apiKey, pUseOllama, pOllamaModel, pUseOpenRouter, pOpenRouterApiKey, envOR, threw) ==
    [ by |-> by, apiKey |-> apiKey, useOllama |-> pUseOllama,
      ollamaModel |-> pOllamaModel, useOpenRouter |-> pUseOpenRouter,
      openRouterApiKey |-> pOpenRouterApiKey, envOpenRouter |-> envOR,
      threw |-> threw ]

\* the arguments ProcessingHelper passes to LLMHelper, or its own error
ProcessingHelperCall(envUseOllama, envOllamaModel, envOR, envG) ==
    IF envUseOllama
    THEN Construction("ProcessingHelper", Empty, TRUE, envOllamaModel, FALSE, Empty, envOR, FALSE)
    ELSE IF envOR # Empty
    THEN Construction("ProcessingHelper", Empty, FALSE, "", TRUE, envOR, envOR, FALSE)
    ELSE IF envG = Empty
    THEN Construction("ProcessingHelper", Empty, FALSE, "", FALSE, Empty, envOR, TRUE)
    ELSE Construction("ProcessingHelper", envG, FALSE, "", FALSE, Empty, envOR, FALSE)

----------------------------------------------------------------------------
(* Reads.                                                                  *)

getCurrentProviderByCredential ==
    IF useOpenRouter THEN "openrouter"
    ELSE IF useOllama THEN "ollama"
    ELSE IF usingFallbackKey THEN "gemini-fallback" ELSE "gemini"

getCurrentProvider ==
    IF useOpenRouter THEN "openrouter"
    ELSE IF useOllama THEN "ollama" ELSE "gemini"

getCurrentModel ==
    IF useOpenRouter THEN openRouterModel
    ELSE IF useOllama THEN ollamaModel ELSE geminiModel

\* what an operation sees of the active configuration
Config == [ kind |-> getCurrentProvider, model |-> getCurrentModel, url |-> ollamaUrl ]

----------------------------------------------------------------------------
(* Operations in flight.                                                   *)

OkMessage == {"OK"}

\* op: the operation; pc: where it waits; attempt, delay, client: the locals
\* of generateContentWithRetry; reqs: the requests issued, each with its
\* attempt slot and the credential of the client it went to; outs: the
\* answer to each request and what the controller did with it; waits: the
\* backoff waits made; ctl: how the controller ended; err: the error
\* raised; res: the operation's outcome; target: the provider the operation
\* went to; list: the model names getOllamaModels returned; text: the text
\* the operation took from the provider's answer; cleaned: what
\* cleanJsonResponse made of it, where the operation called it; value: the
\* value the operation returned
NoText == <<"none">>

IdleCall == [ op |-> "none", pc |-> "idle", attempt |-> 0, delay |-> 0,
              client |-> Undefined, reqs |-> <<>>, outs |-> <<>>, waits |-> <<>>,
              ctl |-> "none", err |-> {}, res |-> "none", target |-> "none",
              list |-> <<>>, text |-> NoText, cleaned |-> NoText, value |-> NoText ]

NoConfig == [ kind |-> "none", model |-> "", url |-> "" ]

\* probed: the model names the first probe returned, while the run goes on
IdleInit == [ pc |-> "idle", bySwitch |-> FALSE, pre |-> NoConfig, seen |-> {},
              probed |-> <<>> ]

\* pc: where processScreenshots waits; slot: the slot of the operation it
\* awaits; events: the events the call sent itself; nested: it has called
\* processVoiceRecording; cancelled: cancelOngoingRequests was called while
\* the call was in flight; controller, extraController: the two abort
\* controller fields; hasDebugged: the app state; runs: the calls so far
IdleScreens == [ pc |-> "idle", slot |-> 0, events |-> <<>>, nested |-> FALSE,
                 cancelled |-> FALSE, controller |-> "null",
                 extraController |-> "null", hasDebugged |-> FALSE, runs |-> 0 ]

\* a handler of the model selector in flight: op is mount (the effect that
\* calls loadCurrentConfig), test (testConnection) or switch
\* (handleProviderSwitch); pc is the request it awaits
Handler(op, pc) == [ op |-> op, pc |-> pc ]

\* the model selector once mounted: connectionStatus, isLoading and
\* selectedProvider are the states of those names, with the effect's
\* loadCurrentConfig awaiting getCurrentLlmConfig; handlers: the handlers
\* in flight; last: the test or switch that ended last and how
IdleSelector == [ connectionStatus |-> "null", isLoading |-> TRUE,
                  selectedProvider |-> "gemini",
                  handlers |-> <<Handler("mount", "config")>>,
                  last |-> [ op |-> "none", outcome |-> "none" ] ]

\* the problem info of the app state: none before the first setProblemInfo
NoProblemInfo == [ problem_statement |-> NoText, transcript |-> NoText ]

\* pc: where processVoiceRecording waits, or how it ended; slot: the slot
\* of the operation it awaits; stages: the
\* stages the run invoked, each with what it was fed; events: the events
\* the run sent to the window; transcript, interpretation, answer: the
\* outputs of the stages; err: the error the run raised; view, problemInfo:
\* the app state; runs: the runs started so far; prev: how the run before
\* this one ended
IdleVoice == [ pc |-> "idle", slot |-> 0, stages |-> <<>>, events |-> <<>>,
               transcript |-> NoText, interpretation |-> NoText, answer |-> NoText,
               err |-> {}, view |-> "queue", problemInfo |-> NoProblemInfo,
               runs |-> 0, prev |-> "idle" ]

NoSwitch == [ op |-> "none", state |-> "none", apiKey |-> Empty, model |-> "",
              pre |-> NoConfig, post |-> NoConfig, seen |-> {} ]

OpResultRaising(op, ctl) ==
    IF ctl = "returned" THEN "value" ELSE "raised"

\* the operation's outcome for its caller, from the controller's outcome:
\* testConnection turns every failure into {success: false}; the other
\* operations read result.candidates and raise
OpResult(op, ctl) ==
    IF ctl = "returned" THEN "value"
    ELSE IF op = "test" THEN "failure" ELSE "raised"

\* the controller ends: returned, thrown, or undefined (fell out of the loop)
Finish(call, ctl, msg) ==
    [call EXCEPT !.pc = "done", !.ctl = ctl, !.err = msg,
                 !.res = OpResult(call.op, ctl)]

\* an operation that did not go through the controller ends
Done(call, ok, msg) ==
    [call EXCEPT !.pc = "done", !.err = msg,
                 !.res = OpResult(call.op, IF ok THEN "returned" ELSE "thrown")]

----------------------------------------------------------------------------
(* The retry/failover controller, generateContentWithRetry.                *)

IsRateLimitError(msg) == msg \cap RateLimitMarkers # {}

ShouldSwapAlways(msg, flag) == IsRateLimitError(msg)

ShouldSwap(msg, flag) ==
    IsRateLimitError(msg) /\ ~flag /\ FallbackGeminiApiKey # Empty

ShouldBackoffOffByOne(msg, attempt) ==
    OverloadMarker \in msg /\ attempt < maxRetries

ShouldBackoff(msg, attempt) ==
    OverloadMarker \in msg /\ attempt < maxRetries - 1

NextDelay(d) == d * 2

\* client ?? this.model
TargetClient(client, mdl) == IF client # Undefined THEN client ELSE mdl

AttemptAfterSwapSame(a) == a

\* the loop's attempt++ runs on `continue` as it does after a backoff
AttemptAfterSwap(a) == a + 1

AttemptAfterBackoff(a) == a + 1

FlagAfterSwapUnset == FALSE

\* the value of usingFallbackKey after a swap
FlagAfterSwap == TRUE

\* one loop iteration up to the await of generateContent; a missing client
\* raises inside the try, and the catch block rethrows it: its message has
\* no marker
Issue(call, mdl) ==
    LET target == TargetClient(call.client, mdl)
    IN  IF target = Null
        THEN Finish(call, "thrown", NoClientMessage)
        ELSE [call EXCEPT !.pc = "awaiting",
                          !.reqs = Append(@, [slot |-> call.attempt, key |-> target])]

\* the loop test after attempt++: falling out of the loop returns undefined,
\* and the caller's result.candidates raises a TypeError
Loop(call, mdl) ==
    IF call.attempt < maxRetries
    THEN Issue(call, mdl)
    ELSE Finish(call, "undefined", TypeErrorMessage)

EnterController(call, mdl) ==
    Loop([call EXCEPT !.attempt = 0, !.delay = InitialDelay, !.ctl = "running"], mdl)

----------------------------------------------------------------------------
(* Initial states: the object ProcessingHelper constructs from the         *)
(* environment.  Local mode starts initializeOllamaModel, unawaited.       *)

Init ==
    \E env \in Environments :
        LET h == ProcessingHelperCtor(env.useOllama, env.ollamaModel,
                                      env.openRouter, env.gemini)
        IN  /\ ~h.throws
            /\ useOllama = h.useOllama
            /\ useOpenRouter = h.useOpenRouter
            /\ ollamaModel = h.ollamaModel
            /\ ollamaUrl = h.ollamaUrl
            /\ geminiModel = DefaultGeminiModel
            /\ openRouterModel = h.openRouterModel
            /\ geminiApiKey = h.geminiApiKey
            /\ openRouterApiKey = h.openRouterApiKey
            /\ usingFallbackKey = h.usingFallbackKey
            /\ model = h.model
            /\ geminiVoiceClient = Null
            /\ envGemini = env.gemini
            /\ ctor = ProcessingHelperCall(env.useOllama, env.ollamaModel,
                                           env.openRouter, env.gemini)
            /\ calls = [c \in Slots |-> IdleCall]
            /\ init = IF h.startsInit THEN [IdleInit EXCEPT !.pc = "probe1"]
                      ELSE IdleInit
            /\ sw = NoSwitch
            /\ nswaps = 0
            /\ nswitch = 0
            /\ ncalls = 0
            /\ voice = IdleVoice
            /\ screens = IdleScreens
            /\ selector = IdleSelector

----------------------------------------------------------------------------
(* The operations.  Each starts in a free slot and runs up to its first    *)
(* await.                                                                  *)

\* no operation runs on an object whose construction raised
Constructed == ~ctor.threw

SwitchInFlight == init.pc # "idle" /\ init.bySwitch

\* the operation that starts now sees the configuration as it is now
Observed == IF SwitchInFlight THEN [init EXCEPT !.seen = @ \cup {Config}] ELSE init

NewCall(op) == [IdleCall EXCEPT !.op = op]

\* an operation starts in the lowest free slot
CanStart(c) ==
    /\ Constructed
    /\ calls[c].pc = "idle"
    /\ \A d \in DOMAIN calls : d < c => calls[d].pc # "idle"
    /\ ncalls < MaxCalls

Started(c, call) ==
    /\ calls' = [calls EXCEPT ![c] = call]
    /\ ncalls' = ncalls + 1
    /\ init' = Observed
    /\ UNCHANGED <<envGemini, ctor, sw, nswaps, nswitch>>

\* callOpenRouter up to its fetch
CallOpenRouter(call) ==
    IF openRouterApiKey = Empty
    THEN Done(call, FALSE, {"OpenRouter API key is not configured"})
    ELSE [call EXCEPT !.pc = "fetch", !.target = "openrouter"]

\* callOllama up to its fetch
CallOllama(call) == [call EXCEPT !.pc = "fetch", !.target = "ollama"]

CallGemini(call, mdl) == EnterController([call EXCEPT !.target = "gemini"], mdl)

ChatDispatchCloudFirst(call) ==
    IF model # Null THEN CallGemini(call, model)
    ELSE IF useOpenRouter THEN CallOpenRouter(call)
    ELSE IF useOllama THEN CallOllama(call)
    ELSE Done(call, FALSE, NoProviderMessage)

\* chat -> chatWithGemini
ChatDispatch(call) ==
    IF useOpenRouter THEN CallOpenRouter(call)
    ELSE IF useOllama THEN CallOllama(call)
    ELSE IF model # Null THEN CallGemini(call, model)
    ELSE Done(call, FALSE, NoProviderMessage)

Chat(c) ==
    /\ CanStart(c)
    /\ Started(c, ChatDispatch(NewCall("chat")))
    /\ UNCHANGED <<router, voice, screens, selector>>

\* generateSolution
SolutionDispatch(call) ==
    IF useOpenRouter THEN CallOpenRouter(call) ELSE CallGemini(call, model)

GenerateSolution(c) ==
    /\ CanStart(c)
    /\ Started(c, SolutionDispatch(NewCall("solution")))
    /\ UNCHANGED <<router, voice, screens, selector>>

\* analyzeImageFile, extractProblemFromImages, debugSolutionWithImages: the
\* cloud path first reads the image files
ImageDispatch(call) ==
    IF useOpenRouter THEN CallOpenRouter(call)
    ELSE [call EXCEPT !.pc = "pre", !.target = "gemini"]

AnalyzeImage(c) ==
    /\ CanStart(c)
    /\ Started(c, ImageDispatch(NewCall("image")))
    /\ UNCHANGED <<router, voice, screens, selector>>

\* extractProblemFromImages, debugSolutionWithImages
StructuredImage(c, op) ==
    /\ CanStart(c)
    /\ Started(c, ImageDispatch(NewCall(op)))
    /\ UNCHANGED <<router, voice, screens, selector>>

\* testConnection
TestDispatch(call) ==
    IF useOpenRouter
    THEN IF openRouterApiKey = Empty
         THEN Done(call, FALSE, {"No OpenRouter API key configured"})
         ELSE CallOpenRouter(call)
    ELSE IF useOllama
    THEN [call EXCEPT !.pc = "check", !.target = "ollama"]
    ELSE IF model = Null
    THEN Done(call, FALSE, {"No Gemini model configured"})
    ELSE CallGemini(call, model)

TestConnection(c) ==
    /\ CanStart(c)
    /\ Started(c, TestDispatch(NewCall("test")))
    /\ UNCHANGED <<router, voice, screens, selector>>

ResolveGeminiApiKeyEnvFirst(stored, env) ==
    IF Trim(env) # Empty THEN Trim(env) ELSE stored

\* resolveGeminiApiKey: the stored key, else the trimmed environment key,
\* which it stores
ResolveGeminiApiKey(stored, env) ==
    IF stored # Empty THEN stored
    ELSE IF Trim(env) # Empty THEN Trim(env) ELSE stored

VoiceOps == {"audioBase64", "audioFile", "voiceInterpret", "voiceAnswer"}

ReadsFile(op) == op \in {"image", "audioFile"}

\* after getGeminiClient: analyzeAudioFile reads its file first; the other
\* operations enter the controller in the same turn of the event loop (the
\* await of getGeminiClient yields to no I/O)
VoiceDispatch(call) ==
    IF ReadsFile(call.op) THEN [call EXCEPT !.pc = "pre"]
    ELSE EnterController(call, Null)

\* analyzeAudioFromBase64, analyzeAudioFile, interpretVoiceTranscript,
\* generateVoiceResponse: getGeminiClient, then the controller with its client
VoiceCall(c, op) ==
    /\ LET apiKey == ResolveGeminiApiKey(geminiApiKey, envGemini)
           cloud  == ~useOllama /\ ~useOpenRouter
           call   == [NewCall(op) EXCEPT !.target = "gemini"]
       IN  /\ geminiApiKey' = apiKey
           /\ IF apiKey = Empty
              THEN /\ Started(c, Done(call, FALSE, NoKeyMessage))
                   /\ UNCHANGED <<model, geminiVoiceClient>>
              ELSE IF cloud
              THEN /\ model' = IF model = Null THEN apiKey ELSE model
                   /\ Started(c, VoiceDispatch([call EXCEPT !.client = model']))
                   /\ UNCHANGED geminiVoiceClient
              ELSE /\ geminiVoiceClient' =
                          IF geminiVoiceClient = Null THEN apiKey ELSE geminiVoiceClient
                   /\ Started(c, VoiceDispatch([call EXCEPT !.client = geminiVoiceClient']))
                   /\ UNCHANGED model
    /\ UNCHANGED <<useOllama, useOpenRouter, ollamaModel, ollamaUrl, geminiModel,
                   openRouterModel, openRouterApiKey, usingFallbackKey>>

VoiceOp(c, op) ==
    /\ CanStart(c)
    /\ VoiceCall(c, op)
    /\ UNCHANGED <<voice, screens, selector>>

\* fs.promises.readFile answers: generateContentWithRetry starts, or the
\* operation raises the read error
PreDone(c, readOk) ==
    /\ calls[c].pc = "pre"
    /\ calls' = [calls EXCEPT ![c] =
                    IF readOk THEN EnterController(calls[c], model)
                    ELSE Done(calls[c], FALSE, {"ENOENT"})]
    /\ UNCHANGED <<router, envGemini, ctor, voice, screens, selector, init, sw, nswaps, nswitch, ncalls>>

\* the provider answers the request of the current attempt
RespondOk(c) ==
    /\ calls[c].pc = "awaiting"
    /\ calls' = [calls EXCEPT ![c] =
                    Finish([calls[c] EXCEPT !.outs = Append(@, [msg |-> OkMessage, did |-> "return"])],
                           "returned", {})]
    /\ UNCHANGED <<router, envGemini, ctor, voice, screens, selector, init, sw, nswaps, nswitch, ncalls>>

EmptyMessage == {"Empty response from Gemini"}

\* the provider answers testConnection's request with an empty text: the
\* controller returns it and testConnection reports a failure
RespondEmpty(c) ==
    /\ calls[c].pc = "awaiting"
    /\ calls[c].op = "test"
    /\ calls' = [calls EXCEPT ![c] =
                    [Finish([calls[c] EXCEPT !.outs = Append(@, [msg |-> EmptyMessage, did |-> "return"])],
                            "returned", EmptyMessage)
                        EXCEPT !.res = "failure"]]
    /\ UNCHANGED <<router, envGemini, ctor, voice, screens, selector, init, sw, nswaps, nswitch, ncalls>>

\* the request of the current attempt fails: the catch block
RespondFail(c, msg) ==
    /\ calls[c].pc = "awaiting"
    /\ LET call == calls[c]
           Answered(did) == [call EXCEPT !.outs = Append(@, [msg |-> msg, did |-> did])]
       IN  IF ShouldSwap(msg, usingFallbackKey)
           THEN /\ geminiApiKey' = FallbackGeminiApiKey
                /\ model' = FallbackGeminiApiKey
                /\ usingFallbackKey' = FlagAfterSwap
                /\ nswaps' = nswaps + 1
                /\ calls' = [calls EXCEPT ![c] =
                       Loop([Answered("swap") EXCEPT
                                 !.attempt = AttemptAfterSwap(call.attempt)],
                            model')]
                /\ UNCHANGED <<useOllama, useOpenRouter, ollamaModel, ollamaUrl,
                               geminiModel, openRouterModel, openRouterApiKey,
                               geminiVoiceClient>>
           ELSE IF ShouldBackoff(msg, call.attempt)
           THEN /\ calls' = [calls EXCEPT ![c] =
                       [Answered("wait") EXCEPT !.pc = "sleeping",
                                                !.waits = Append(@, call.delay)]]
                /\ UNCHANGED <<router, nswaps>>
           ELSE /\ calls' = [calls EXCEPT ![c] = Finish(Answered("throw"), "thrown", msg)]
                /\ UNCHANGED <<router, nswaps>>
    /\ UNCHANGED <<envGemini, ctor, voice, screens, selector, init, sw, nswitch, ncalls>>

\* the backoff timer fires: delay *= 2, attempt++, next iteration
Wake(c) ==
    /\ calls[c].pc = "sleeping"
    /\ calls' = [calls EXCEPT ![c] =
                    Loop([calls[c] EXCEPT !.delay = NextDelay(@),
                                          !.attempt = AttemptAfterBackoff(@)],
                         model)]
    /\ UNCHANGED <<router, envGemini, ctor, voice, screens, selector, init, sw, nswaps, nswitch, ncalls>>

\* checkOllamaAvailable answers in testConnection
CheckDone(c, ok) ==
    /\ calls[c].pc = "check"
    /\ calls' = [calls EXCEPT ![c] =
                    IF ok THEN CallOllama(calls[c])
                    ELSE Done(calls[c], FALSE, {"Ollama not available"})]
    /\ UNCHANGED <<router, envGemini, ctor, voice, screens, selector, init, sw, nswaps, nswitch, ncalls>>

FetchFailedMessage == {"fetch failed"}

\* the gateway or the local server answers
FetchDone(c, ok) ==
    /\ calls[c].pc = "fetch"
    /\ calls' = [calls EXCEPT ![c] =
                    IF ok
                    THEN Done([calls[c] EXCEPT !.outs = Append(@, [msg |-> OkMessage, did |-> "return"])],
                              TRUE, {})
                    ELSE Done([calls[c] EXCEPT !.outs = Append(@, [msg |-> FetchFailedMessage, did |-> "throw"])],
                              FALSE, FetchFailedMessage)]
    /\ UNCHANGED <<router, envGemini, ctor, voice, screens, selector, init, sw, nswaps, nswitch, ncalls>>

SyntaxErrorMessage == {"SyntaxError"}
EmptyVoiceMessage == {"Voice response generation returned empty output"}

Raise(call, msg) == [call EXCEPT !.pc = "done", !.err = msg, !.res = "raised"]

Return(call, value) == [call EXCEPT !.pc = "done", !.res = "value", !.value = value]

OnParseFailureRetry(call) ==
    [call EXCEPT !.pc = IF call.target = "gemini" THEN "awaiting" ELSE "fetch",
                 !.reqs = Append(@, [slot |-> call.attempt, key |-> call.client])]

\* JSON.parse throws: no catch block repairs or asks again, the error
\* reaches the caller
OnParseFailure(call) == Raise(call, SyntaxErrorMessage)

\* return JSON.parse(text)
ParseText(call, text) ==
    LET parsed == JsonParse(text)
    IN  IF parsed.ok THEN Return(call, parsed.value) ELSE OnParseFailure(call)

\* JSON.parse(this.cleanJsonResponse(text)); text.replace on a missing text
\* is a TypeError
CleanAndParse(call, text) ==
    IF text = Absent THEN Raise(call, TypeErrorMessage)
    ELSE ParseText([call EXCEPT !.cleaned = cleanJsonResponse(text)],
                   cleanJsonResponse(text))

VoiceAnswerTextUntrimmed(text) == text

\* parts[0].text?.trim()
VoiceAnswerText(text) == IF text = Absent THEN Absent ELSE Trim(text)

StructuredOps == {"extract", "debug", "solution", "voiceInterpret"}

\* what the operation makes of the text of a successful answer
TextOutcome(call, text) ==
    IF call.op \in {"extract", "debug"}
    THEN IF call.target = "openrouter" THEN ParseText(call, text)
         ELSE CleanAndParse(call, text)
    ELSE IF call.op \in {"solution", "voiceInterpret"}
    THEN CleanAndParse(call, text)
    ELSE IF call.op = "voiceAnswer"
    THEN IF VoiceAnswerText(text) \in {Absent, Empty}
         THEN Raise(call, EmptyVoiceMessage)
         ELSE Return(call, VoiceAnswerText(text))
    ELSE IF call.op = "test"
    THEN IF call.target = "gemini" /\ text \in {Absent, Empty}
         THEN [call EXCEPT !.pc = "done", !.err = EmptyMessage, !.res = "failure"]
         ELSE [call EXCEPT !.pc = "done", !.res = "value"]
    ELSE Return(call, text)

\* the provider answers the request of the current attempt with a text: the
\* controller returns the answer and the operation reads its first text part
RespondText(c, text) ==
    /\ calls[c].pc = "awaiting"
    /\ calls' = [calls EXCEPT ![c] =
                    TextOutcome(Finish([calls[c] EXCEPT
                                            !.outs = Append(@, [msg |-> OkMessage, did |-> "return"]),
                                            !.text = text],
                                       "returned", {}),
                                text)]
    /\ UNCHANGED <<router, envGemini, ctor, voice, screens, selector, init, sw, nswaps, nswitch, ncalls>>

\* the text callOpenRouter returns (content || '') and the text callOllama
\* returns (data.response)
FetchedText(target, text) ==
    IF target = "openrouter" /\ text = Absent THEN Empty ELSE text

\* the gateway or the local server answers with a text
FetchText(c, text) ==
    /\ calls[c].pc = "fetch"
    /\ calls' = [calls EXCEPT ![c] =
                    TextOutcome(Done([calls[c] EXCEPT
                                          !.outs = Append(@, [msg |-> OkMessage, did |-> "return"]),
                                          !.text = FetchedText(calls[c].target, text)],
                                     TRUE, {}),
                                FetchedText(calls[c].target, text))]
    /\ UNCHANGED <<router, envGemini, ctor, voice, screens, selector, init, sw, nswaps, nswitch, ncalls>>

ModelNamesDefaulting(answer) ==
    IF answer.reached /\ answer.ok /\ answer.models # Undefined
    THEN answer.models ELSE <<DefaultOllamaModel>>

\* what getOllamaModels makes of the answer to GET /api/tags: the names of
\* the models field, and [] for a rejected fetch, a non-2xx status or a
\* body without the field
ModelNames(answer) ==
    IF answer.reached /\ answer.ok /\ answer.models # Undefined
    THEN answer.models ELSE <<>>

TagsMessage(answer) ==
    IF ~answer.reached THEN FetchFailedMessage
    ELSE IF ~answer.ok THEN {"Failed to fetch models"} ELSE OkMessage

\* getOllamaModels: [] at once when local mode is off, else the probe
GetOllamaModels(c) ==
    /\ CanStart(c)
    /\ Started(c, IF ~useOllama THEN Done(NewCall("models"), TRUE, {})
                  ELSE [NewCall("models") EXCEPT !.pc = "tags", !.target = "ollama"])
    /\ UNCHANGED <<router, voice, screens, selector>>

\* the probe of getOllamaModels answers
TagsDone(c, answer) ==
    /\ calls[c].pc = "tags"
    /\ calls' = [calls EXCEPT ![c] =
                    Done([calls[c] EXCEPT
                              !.outs = Append(@, [msg |-> TagsMessage(answer), did |-> "return"]),
                              !.list = ModelNames(answer)],
                         TRUE, {})]
    /\ UNCHANGED <<router, envGemini, ctor, voice, screens, selector, init, sw, nswaps, nswitch, ncalls>>

\* the caller takes the outcome
Release(c) ==
    /\ calls[c].pc = "done"
    /\ calls' = [calls EXCEPT ![c] = IdleCall]
    /\ UNCHANGED <<router, envGemini, ctor, voice, screens, selector, init, sw, nswaps, nswitch, ncalls>>

----------------------------------------------------------------------------
(* The voice pipeline, processVoiceRecording of ProcessingHelper: three    *)
(* operations of the helper, one after the other, each awaited.  The step  *)
(* that takes the outcome of one stage runs on to the next await.          *)

NoWindowMessage == {"No main window available"}
EmptyTranscriptMessage == {"Empty voice transcript provided"}

Event(name, msg) == [ name |-> name, msg |-> msg ]

\* a stage and what it was called with
Stage(name, transcript, interpretation) ==
    [ name |-> name, transcript |-> transcript, interpretation |-> interpretation ]

VoiceRunning == voice.pc \in {"transcribing", "interpreting", "answering"}

\* a new run: nothing of the previous run is kept but the app state
StartRun(v) ==
    [IdleVoice EXCEPT !.view = v.view, !.problemInfo = v.problemInfo,
                      !.runs = v.runs + 1, !.prev = v.pc]

VoiceCatchSilent(v, msg) == [v EXCEPT !.pc = "raised", !.err = msg]

\* the catch block: INITIAL_SOLUTION_ERROR with the error's message, then
\* throw error
VoiceCatch(v, msg) ==
    [v EXCEPT !.pc = "raised", !.err = msg,
              !.events = Append(@, Event("INITIAL_SOLUTION_ERROR", msg))]

\* the run ends in the catch block; the awaited operation is over
VoiceAbort(c, v, msg) ==
    /\ voice' = VoiceCatch(v, msg)
    /\ calls' = [calls EXCEPT ![c] = IdleCall]
    /\ UNCHANGED <<router, envGemini, ctor, init, sw, nswaps, nswitch, ncalls>>

\* processVoiceRecording is over and the processScreenshots call that
\* awaits it goes on: its catch block sends INITIAL_SOLUTION_ERROR with the
\* message of the error and returns; after a return it returns
VoiceReturns(s, v) ==
    IF s.pc # "voice" THEN s
    ELSE IF v.pc = "raised"
    THEN [s EXCEPT !.pc = "done",
                   !.events = Append(@, Event("INITIAL_SOLUTION_ERROR", v.err))]
    ELSE IF v.pc = "returned" THEN [s EXCEPT !.pc = "done"]
    ELSE s

\* processVoiceRecording up to its first await: without a main window it
\* raises at once; else INITIAL_START, setView and analyzeAudioFromBase64
VoiceStart(c, hasWindow) ==
    IF ~hasWindow
    THEN /\ voice' = [StartRun(voice) EXCEPT !.pc = "raised", !.err = NoWindowMessage]
         /\ UNCHANGED <<router, envGemini, ctor, calls, init, sw, nswaps,
                        nswitch, ncalls>>
    ELSE /\ voice' = [StartRun(voice) EXCEPT
                          !.pc = "transcribing", !.slot = c, !.view = "solutions",
                          !.events = <<Event("INITIAL_START", {})>>,
                          !.stages = <<Stage("transcription", NoText, NoText)>>]
         /\ VoiceCall(c, "audioBase64")

\* a recording arrives: processVoiceRecording is called
VoiceRun(c, hasWindow) ==
    /\ Constructed
    /\ ~VoiceRunning
    /\ voice.runs < MaxRuns
    /\ \A d \in DOMAIN calls : calls[d].pc = "idle"
    /\ \A d \in DOMAIN calls : c <= d
    /\ VoiceStart(c, hasWindow)
    /\ UNCHANGED <<screens, selector>>

\* a transcript.trim() that is empty, or no transcript at all
BlankTranscript(transcript) == transcript = Absent \/ Trim(transcript) = Empty

\* analyzeAudioFromBase64 is over: the catch block, or
\* interpretVoiceTranscript(transcriptResult.text), which raises on a blank
\* transcript before any request
TranscriptionDone(c) ==
    /\ voice.pc = "transcribing" /\ voice.slot = c
    /\ calls[c].pc = "done"
    /\ IF calls[c].res # "value"
       THEN VoiceAbort(c, voice, calls[c].err)
       ELSE LET transcript == calls[c].value
                fed == [voice EXCEPT
                            !.transcript = transcript,
                            !.stages = Append(@, Stage("interpretation", transcript, NoText))]
            IN  IF BlankTranscript(transcript)
                THEN VoiceAbort(c, fed, EmptyTranscriptMessage)
                ELSE /\ voice' = [fed EXCEPT !.pc = "interpreting"]
                     /\ VoiceCall(c, "voiceInterpret")
    /\ screens' = VoiceReturns(screens, voice')
    /\ UNCHANGED selector

\* interpretVoiceTranscript is over: the catch block, or
\* generateVoiceResponse(transcriptResult.text, interpretation)
InterpretationDone(c) ==
    /\ voice.pc = "interpreting" /\ voice.slot = c
    /\ calls[c].pc = "done"
    /\ IF calls[c].res # "value"
       THEN VoiceAbort(c, voice, calls[c].err)
       ELSE /\ voice' = [voice EXCEPT
                             !.pc = "answering",
                             !.interpretation = calls[c].value,
                             !.stages = Append(@, Stage("answer", voice.transcript, calls[c].value))]
            /\ VoiceCall(c, "voiceAnswer")
    /\ screens' = VoiceReturns(screens, voice')
    /\ UNCHANGED selector

SuccessEventsSwapped(events) ==
    events \o <<Event("SOLUTION_SUCCESS", {}), Event("PROBLEM_EXTRACTED", {})>>

\* the two sends after the stages
SuccessEvents(events) ==
    events \o <<Event("PROBLEM_EXTRACTED", {}), Event("SOLUTION_SUCCESS", {})>>

\* interpretation.problem_statement || transcriptResult.text, for the
\* interpretations of the model (the object {} has no problem_statement)
ProblemInfo(transcript, interpretation) ==
    [ problem_statement |-> transcript, transcript |-> transcript ]

\* generateVoiceResponse is over: the catch block, or problemInfo is built
\* (a TypeError if the interpretation is null), stored and sent, the
\* solution is sent and the run returns
AnswerDone(c) ==
    /\ voice.pc = "answering" /\ voice.slot = c
    /\ calls[c].pc = "done"
    /\ IF calls[c].res # "value"
       THEN VoiceAbort(c, voice, calls[c].err)
       ELSE IF voice.interpretation = Null
       THEN VoiceAbort(c, [voice EXCEPT !.answer = calls[c].value], TypeErrorMessage)
       ELSE /\ voice' = [voice EXCEPT
                             !.pc = "returned",
                             !.answer = calls[c].value,
                             !.problemInfo = ProblemInfo(voice.transcript, voice.interpretation),
                             !.events = SuccessEvents(@)]
            /\ calls' = [calls EXCEPT ![c] = IdleCall]
            /\ UNCHANGED <<router, envGemini, ctor, init, sw, nswaps, nswitch, ncalls>>
    /\ screens' = VoiceReturns(screens, voice')
    /\ UNCHANGED selector

----------------------------------------------------------------------------
(* processScreenshots and cancelOngoingRequests of ProcessingHelper.  One  *)
(* call at a time; the view and the problem info of the app state are the  *)
(* fields of the voice record.                                             *)

NoProblemInfoMessage == {"No problem info available"}

ScreensRunning == screens.pc \notin {"idle", "done"}

\* a new call: nothing of the previous call is kept but the fields of the
\* helper and of the app state
StartScreens(s) ==
    [IdleScreens EXCEPT !.controller = s.controller,
                        !.extraController = s.extraController,
                        !.hasDebugged = s.hasDebugged, !.runs = s.runs + 1]

\* the call returns before any await
ScreensReturn(s) ==
    /\ screens' = [s EXCEPT !.pc = "done"]
    /\ UNCHANGED <<router, envGemini, ctor, voice, calls, init, sw, nswaps,
                   nswitch, ncalls>>

\* the problem info processScreenshots builds from the answer to the image
ImageProblemInfo(text) == [ problem_statement |-> text, transcript |-> NoText ]

\* processScreenshots up to its first await.  queue: what the screenshot
\* queue holds, by its last path; extra: the extra queue is not empty
ProcessScreenshots(c, hasWindow, queue, extra) ==
    /\ Constructed
    /\ ~ScreensRunning
    /\ ~VoiceRunning
    /\ screens.runs < MaxRuns
    /\ \A d \in DOMAIN calls : calls[d].pc = "idle"
    /\ \A d \in DOMAIN calls : c <= d
    /\ UNCHANGED selector
    /\ LET s == StartScreens(screens)
       IN  IF ~hasWindow THEN ScreensReturn(s)
           ELSE IF voice.view = "queue"
           THEN IF queue = "empty"
                THEN ScreensReturn([s EXCEPT !.events = <<Event("NO_SCREENSHOTS", {})>>])
                ELSE IF queue = "audio"
                THEN /\ screens' = [s EXCEPT !.pc = "readAudio", !.slot = c,
                                             !.events = <<Event("INITIAL_START", {})>>]
                     /\ voice' = [voice EXCEPT !.view = "solutions"]
                     /\ UNCHANGED <<router, envGemini, ctor, calls, init, sw,
                                    nswaps, nswitch, ncalls>>
                ELSE /\ screens' = [s EXCEPT !.pc = "image", !.slot = c,
                                             !.controller = "live",
                                             !.events = <<Event("INITIAL_START", {})>>]
                     /\ voice' = [voice EXCEPT !.view = "solutions"]
                     /\ Started(c, ImageDispatch(NewCall("image")))
                     /\ UNCHANGED router
           ELSE IF ~extra
           THEN ScreensReturn([s EXCEPT !.events = <<Event("NO_SCREENSHOTS", {})>>])
           ELSE IF voice.problemInfo = NoProblemInfo
           THEN ScreensReturn([s EXCEPT
                                   !.events = <<Event("DEBUG_START", {}),
                                                Event("DEBUG_ERROR", NoProblemInfoMessage)>>])
           ELSE /\ screens' = [s EXCEPT !.pc = "solution", !.slot = c,
                                        !.extraController = "live",
                                        !.events = <<Event("DEBUG_START", {})>>]
                /\ Started(c, SolutionDispatch(NewCall("solution")))
                /\ UNCHANGED <<router, voice>>

\* fs.promises.readFile of the recording answers: the catch block, or
\* processVoiceRecording runs up to its first await
ScreensAudioRead(c, readOk, hasWindow) ==
    /\ screens.pc = "readAudio" /\ screens.slot = c
    /\ UNCHANGED selector
    /\ IF ~readOk
       THEN /\ screens' = [screens EXCEPT
                               !.pc = "done",
                               !.events = Append(@, Event("INITIAL_SOLUTION_ERROR", {"ENOENT"}))]
            /\ UNCHANGED <<router, envGemini, ctor, voice, calls, init, sw,
                           nswaps, nswitch, ncalls>>
       ELSE /\ VoiceStart(c, hasWindow)
            /\ screens' = VoiceReturns([screens EXCEPT !.pc = "voice", !.nested = TRUE],
                                       voice')

\* analyzeImageFile is over: PROBLEM_EXTRACTED and setProblemInfo, or the
\* catch block; then the finally block
ScreensImageDone(c) ==
    /\ screens.pc = "image" /\ screens.slot = c
    /\ calls[c].pc = "done"
    /\ IF calls[c].res = "value"
       THEN /\ screens' = [screens EXCEPT
                               !.pc = "done", !.controller = "null",
                               !.events = Append(@, Event("PROBLEM_EXTRACTED", {}))]
            /\ voice' = [voice EXCEPT !.problemInfo = ImageProblemInfo(calls[c].value)]
       ELSE /\ screens' = [screens EXCEPT
                               !.pc = "done", !.controller = "null",
                               !.events = Append(@, Event("INITIAL_SOLUTION_ERROR", calls[c].err))]
            /\ UNCHANGED voice
    /\ calls' = [calls EXCEPT ![c] = IdleCall]
    /\ UNCHANGED <<router, envGemini, ctor, selector, init, sw, nswaps, nswitch, ncalls>>

\* the catch block and the finally block of the debug branch
DebugCatch(c, msg) ==
    /\ screens' = [screens EXCEPT
                       !.pc = "done", !.extraController = "null",
                       !.events = Append(@, Event("DEBUG_ERROR", msg))]
    /\ calls' = [calls EXCEPT ![c] = IdleCall]
    /\ UNCHANGED <<router, envGemini, ctor, init, sw, nswaps, nswitch, ncalls>>

\* generateSolution is over: the catch block, also for a value without a
\* solution (currentSolution.solution.code), or debugSolutionWithImages
ScreensSolutionDone(c) ==
    /\ screens.pc = "solution" /\ screens.slot = c
    /\ calls[c].pc = "done"
    /\ UNCHANGED <<voice, selector>>
    /\ IF calls[c].res # "value" THEN DebugCatch(c, calls[c].err)
       ELSE IF calls[c].value # SolutionObject THEN DebugCatch(c, TypeErrorMessage)
       ELSE /\ screens' = [screens EXCEPT !.pc = "debug"]
            /\ Started(c, ImageDispatch(NewCall("debug")))
            /\ UNCHANGED router

\* debugSolutionWithImages is over: setHasDebugged(true) and DEBUG_SUCCESS,
\* or the catch block; then the finally block
ScreensDebugDone(c) ==
    /\ screens.pc = "debug" /\ screens.slot = c
    /\ calls[c].pc = "done"
    /\ UNCHANGED <<voice, selector>>
    /\ IF calls[c].res # "value" THEN DebugCatch(c, calls[c].err)
       ELSE /\ screens' = [screens EXCEPT
                               !.pc = "done", !.extraController = "null",
                               !.hasDebugged = TRUE,
                               !.events = Append(@, Event("DEBUG_SUCCESS", {}))]
            /\ calls' = [calls EXCEPT ![c] = IdleCall]
            /\ UNCHANGED <<router, envGemini, ctor, init, sw, nswaps, nswitch, ncalls>>

\* cancelOngoingRequests: both controllers are aborted and forgotten, and
\* setHasDebugged(false).  No request was given a signal of the
\* controllers: the call in flight and its operation go on
CancelOngoingRequests ==
    /\ Constructed
    /\ screens' = [screens EXCEPT !.controller = "null", !.extraController = "null",
                                  !.hasDebugged = FALSE,
                                  !.cancelled = @ \/ ScreensRunning]
    /\ UNCHANGED <<router, envGemini, ctor, voice, selector, calls, init, sw,
                   nswaps, nswitch, ncalls>>

----------------------------------------------------------------------------
(* The provider switches.  The caller serializes them: none starts while   *)
(* switchToOllama still awaits its initializeOllamaModel.                  *)

CanSwitch == Constructed /\ ~SwitchInFlight /\ nswitch < MaxSwitches

SwitchFailed(op, apiKey, mdl) ==
    /\ sw' = [NoSwitch EXCEPT !.op = op, !.state = "failed", !.apiKey = apiKey,
                              !.model = mdl, !.pre = Config, !.post = Config]
    /\ nswitch' = nswitch + 1
    /\ UNCHANGED <<router, envGemini, ctor, voice, screens, selector, calls, init, nswaps, ncalls>>

SwitchDone(op, apiKey, mdl) ==
    /\ sw' = [NoSwitch EXCEPT !.op = op, !.state = "done", !.apiKey = apiKey,
                              !.model = mdl, !.pre = Config, !.post = Config']
    /\ nswitch' = nswitch + 1
    /\ UNCHANGED <<envGemini, ctor, voice, screens, selector, calls, nswaps, ncalls>>

\* the fallback flag after switchToGemini: the method does not assign it
FlagAfterSwitchToGemini(flag) == flag

GeminiSwitchKeyOrFallback(apiKey, stored, env) ==
    OrElse(Trim(apiKey), OrElse(stored, OrElse(Trim(env), FallbackGeminiApiKey)))

\* the credential switchToGemini resolves: the trimmed argument, else the
\* stored key, else the trimmed environment key
GeminiSwitchKey(apiKey, stored, env) ==
    OrElse(Trim(apiKey), OrElse(stored, Trim(env)))

ModelAfterSwitchKept(mdl, current) == current

\* the model name after a switch: the argument if given, else as it was
ModelAfterSwitch(mdl, current) == IF mdl # "" THEN mdl ELSE current

SwitchToGemini(apiKey, mdl) ==
    /\ CanSwitch
    /\ LET resolvedKey == GeminiSwitchKey(apiKey, geminiApiKey, envGemini)
       IN  IF resolvedKey = Empty
           THEN SwitchFailed("gemini", apiKey, mdl)
           ELSE /\ model' = IF model = Null \/ apiKey # Empty THEN resolvedKey ELSE model
                /\ geminiApiKey' = resolvedKey
                /\ useOllama' = FALSE
                /\ useOpenRouter' = FALSE
                /\ geminiModel' = ModelAfterSwitch(mdl, geminiModel)
                /\ usingFallbackKey' = FlagAfterSwitchToGemini(usingFallbackKey)
                /\ UNCHANGED <<ollamaModel, ollamaUrl, openRouterModel,
                               openRouterApiKey, geminiVoiceClient, init>>
                /\ SwitchDone("gemini", apiKey, mdl)

SwitchToOpenRouter(apiKey, mdl) ==
    /\ CanSwitch
    /\ LET resolvedKey == OrElse(Trim(apiKey), openRouterApiKey)
       IN  IF resolvedKey = Empty
           THEN SwitchFailed("openrouter", apiKey, mdl)
           ELSE /\ openRouterApiKey' = resolvedKey
                /\ openRouterModel' = ModelAfterSwitch(mdl, openRouterModel)
                /\ useOllama' = FALSE
                /\ useOpenRouter' = TRUE
                /\ UNCHANGED <<ollamaModel, ollamaUrl, geminiModel, geminiApiKey,
                               usingFallbackKey, model, geminiVoiceClient, init>>
                /\ SwitchDone("openrouter", apiKey, mdl)

\* switchToOllama with a model name: no await
SwitchToOllamaModel(mdl, url) ==
    /\ CanSwitch
    /\ mdl # ""
    /\ useOllama' = TRUE
    /\ ollamaUrl' = IF url # "" THEN url ELSE ollamaUrl
    /\ ollamaModel' = mdl
    /\ UNCHANGED <<useOpenRouter, geminiModel, openRouterModel, geminiApiKey,
                   openRouterApiKey, usingFallbackKey, model, geminiVoiceClient, init>>
    /\ SwitchDone("ollama", Empty, mdl)

\* switchToOllama without a model name: awaits initializeOllamaModel, whose
\* getOllamaModels sends the probe at once; one initializeOllamaModel runs at
\* a time, so it waits for the one the constructor started
SwitchToOllamaAuto(url) ==
    /\ CanSwitch
    /\ init.pc = "idle"
    /\ useOllama' = TRUE
    /\ ollamaUrl' = IF url # "" THEN url ELSE ollamaUrl
    /\ init' = [IdleInit EXCEPT !.pc = "probe1", !.bySwitch = TRUE, !.pre = Config]
    /\ sw' = [NoSwitch EXCEPT !.op = "ollama", !.state = "pending", !.pre = Config]
    /\ nswitch' = nswitch + 1
    /\ UNCHANGED <<useOpenRouter, ollamaModel, geminiModel, openRouterModel,
                   geminiApiKey, openRouterApiKey, usingFallbackKey, model,
                   geminiVoiceClient, envGemini, ctor, voice, screens, selector, calls, nswaps, ncalls>>

----------------------------------------------------------------------------
(* initializeOllamaModel.                                                  *)

\* initializeOllamaModel returns; a switchToOllama that awaited it returns
InitReturns ==
    /\ init' = IdleInit
    /\ sw' = IF init.bySwitch
             THEN [sw EXCEPT !.state = "done", !.post = Config', !.seen = init.seen]
             ELSE sw

SelectModelLast(current, list) ==
    IF current \in {list[i] : i \in 1..Len(list)} THEN current ELSE list[Len(list)]

\* the model to use, given the probed list
SelectModel(current, list) ==
    IF current \in {list[i] : i \in 1..Len(list)} THEN current ELSE list[1]

\* the first probe answers: an empty list ends the initialisation, else the
\* model is selected and the test request is sent
ProbeDone(answer) ==
    /\ init.pc = "probe1"
    /\ UNCHANGED <<useOllama, useOpenRouter, ollamaUrl, geminiModel, openRouterModel,
                   geminiApiKey, openRouterApiKey, usingFallbackKey, model,
                   geminiVoiceClient, envGemini, ctor, voice, screens, selector, calls, nswaps, nswitch, ncalls>>
    /\ LET list == ModelNames(answer)
       IN  IF list = <<>>
           THEN /\ UNCHANGED ollamaModel
                /\ InitReturns
           ELSE /\ ollamaModel' = SelectModel(ollamaModel, list)
                /\ init' = [init EXCEPT !.pc = "test", !.probed = list]
                /\ UNCHANGED sw

\* the test request callOllama("Hello") answers; on failure the catch block
\* probes again, and getOllamaModels answers [] at once when local mode is off
InitTestDone(ok) ==
    /\ init.pc = "test"
    /\ UNCHANGED <<router, envGemini, ctor, voice, screens, selector, calls, nswaps, nswitch, ncalls>>
    /\ IF ok \/ ~useOllama
       THEN InitReturns
       ELSE /\ init' = [init EXCEPT !.pc = "probe2"]
            /\ UNCHANGED sw

\* the model the catch block falls back to
FallbackModel(current, list) == IF list # <<>> THEN list[1] ELSE current

\* the second probe answers
FallbackProbeDone(answer) ==
    /\ init.pc = "probe2"
    /\ ollamaModel' = FallbackModel(ollamaModel, ModelNames(answer))
    /\ UNCHANGED <<useOllama, useOpenRouter, ollamaUrl, geminiModel, openRouterModel,
                   geminiApiKey, openRouterApiKey, usingFallbackKey, model,
                   geminiVoiceClient, envGemini, ctor, voice, screens, selector, calls, nswaps, nswitch, ncalls>>
    /\ InitReturns

----------------------------------------------------------------------------

Next ==
    \/ \E c \in DOMAIN calls : Chat(c)
    \/ \E c \in DOMAIN calls : GenerateSolution(c)
    \/ \E c \in DOMAIN calls : AnalyzeImage(c)
    \/ \E c \in DOMAIN calls : TestConnection(c)
    \/ \E c \in DOMAIN calls : GetOllamaModels(c)
    \/ \E c \in DOMAIN calls, op \in VoiceOps : VoiceOp(c, op)
    \/ \E c \in DOMAIN calls, readOk \in BOOLEAN : PreDone(c, readOk)
    \/ \E c \in DOMAIN calls : RespondOk(c)
    \/ \E c \in DOMAIN calls, msg \in FailMessages : RespondFail(c, msg)
    \/ \E c \in DOMAIN calls : Wake(c)
    \/ \E c \in DOMAIN calls, ok \in BOOLEAN : CheckDone(c, ok)
    \/ \E c \in DOMAIN calls, ok \in BOOLEAN : FetchDone(c, ok)
    \/ \E c \in DOMAIN calls, answer \in TagsAnswers(ModelLists) : TagsDone(c, answer)
    \/ \E c \in DOMAIN calls : Release(c)
    \/ \E a \in GeminiSwitchInputs : SwitchToGemini(a.apiKey, a.model)
    \/ \E a \in OpenRouterSwitchInputs : SwitchToOpenRouter(a.apiKey, a.model)
    \/ \E a \in OllamaSwitchInputs : SwitchToOllamaModel(a.model, a.url)
    \/ \E url \in UrlInputs : SwitchToOllamaAuto(url)
    \/ \E answer \in TagsAnswers(ModelLists) : ProbeDone(answer)
    \/ \E ok \in BOOLEAN : InitTestDone(ok)
    \/ \E answer \in TagsAnswers(ModelLists) : FallbackProbeDone(answer)

\* one operation at a time, every operation, every switch
Spec == Init /\ [][Next]_vars

----------------------------------------------------------------------------
(* Overlapping operations: two slots, started with the cloud provider      *)
(* active, with a plain operation, a connection test and an operation that *)
(* passes its own client, and the switches that do not await.              *)

CloudEnvironments == { env \in Environments : ~env.useOllama /\ env.openRouter = Empty }

ConcVoiceOps == {"audioBase64"}

ConcFailMessages == { {"429"}, {"503"}, {"500"} }

ConcGeminiSwitchInputs == {
    [ apiKey |-> <<>>,         model |-> "" ],
    [ apiKey |-> <<" ", "a">>, model |-> "" ] }
ConcOpenRouterSwitchInputs == { [ apiKey |-> <<"r", " ">>, model |-> "" ] }

InitConc ==
    \E env \in CloudEnvironments :
        LET h == ProcessingHelperCtor(env.useOllama, env.ollamaModel,
                                      env.openRouter, env.gemini)
        IN  /\ ~h.throws
            /\ useOllama = h.useOllama
            /\ useOpenRouter = h.useOpenRouter
            /\ ollamaModel = h.ollamaModel
            /\ ollamaUrl = h.ollamaUrl
            /\ geminiModel = DefaultGeminiModel
            /\ openRouterModel = h.openRouterModel
            /\ geminiApiKey = h.geminiApiKey
            /\ openRouterApiKey = h.openRouterApiKey
            /\ usingFallbackKey = h.usingFallbackKey
            /\ model = h.model
            /\ geminiVoiceClient = Null
            /\ envGemini = env.gemini
            /\ ctor = ProcessingHelperCall(env.useOllama, env.ollamaModel,
                                           env.openRouter, env.gemini)
            /\ calls = [c \in ConcSlots |-> IdleCall]
            /\ init = IdleInit
            /\ sw = NoSwitch
            /\ nswaps = 0
            /\ nswitch = 0
            /\ ncalls = 0
            /\ voice = IdleVoice
            /\ screens = IdleScreens
            /\ selector = IdleSelector

NextConc ==
    \/ \E c \in DOMAIN calls : Chat(c)
    \/ \E c \in DOMAIN calls : TestConnection(c)
    \/ \E c \in DOMAIN calls, op \in ConcVoiceOps : VoiceOp(c, op)
    \/ \E c \in DOMAIN calls : RespondOk(c)
    \/ \E c \in DOMAIN calls, msg \in ConcFailMessages : RespondFail(c, msg)
    \/ \E c \in DOMAIN calls : Wake(c)
    \/ \E c \in DOMAIN calls, ok \in BOOLEAN : CheckDone(c, ok)
    \/ \E c \in DOMAIN calls, ok \in BOOLEAN : FetchDone(c, ok)
    \/ \E c \in DOMAIN calls : Release(c)
    \/ \E a \in ConcGeminiSwitchInputs : SwitchToGemini(a.apiKey, a.model)
    \/ \E a \in ConcOpenRouterSwitchInputs : SwitchToOpenRouter(a.apiKey, a.model)
    \/ \E a \in OllamaSwitchInputs : SwitchToOllamaModel(a.model, a.url)

SpecConc == InitConc /\ [][NextConc]_vars

----------------------------------------------------------------------------
(* Construction with any arguments: new LLMHelper(...) called directly, or *)
(* new ProcessingHelper(...) in any environment, followed by the switches, *)
(* the local-model initialisation and getOllamaModels.                     *)

\* the state after the construction recorded in rec, which produced h
Constructs(h, rec, envG) ==
    LET obj == IF h.throws THEN Unconstructed ELSE h
    IN  /\ useOllama = obj.useOllama
        /\ useOpenRouter = obj.useOpenRouter
        /\ ollamaModel = obj.ollamaModel
        /\ ollamaUrl = obj.ollamaUrl
        /\ geminiModel = DefaultGeminiModel
        /\ openRouterModel = obj.openRouterModel
        /\ geminiApiKey = obj.geminiApiKey
        /\ openRouterApiKey = obj.openRouterApiKey
        /\ usingFallbackKey = obj.usingFallbackKey
        /\ model = obj.model
        /\ geminiVoiceClient = Null
        /\ envGemini = envG
        /\ ctor = [rec EXCEPT !.threw = h.throws]
        /\ calls = [c \in Slots |-> IdleCall]
        /\ init = IF obj.startsInit THEN [IdleInit EXCEPT !.pc = "probe1"]
                  ELSE IdleInit
        /\ sw = NoSwitch
        /\ nswaps = 0
        /\ nswitch = 0
        /\ ncalls = 0
        /\ voice = IdleVoice
        /\ screens = IdleScreens
        /\ selector = IdleSelector

InitCtor ==
    \/ \E apiKey \in CtorApiKeys, pUseOllama \in BOOLEAN,
          pOllamaModel \in CtorOllamaModels, pUseOpenRouter \in BOOLEAN,
          pOpenRouterApiKey \in CtorOpenRouterKeys,
          envG \in EnvGeminiKeys, envOR \in EnvOpenRouterKeys :
            Constructs(LLMHelperCtor(apiKey, pUseOllama, pOllamaModel, "", pUseOpenRouter,
                                     pOpenRouterApiKey, "", envG, envOR),
                       Construction("LLMHelper", apiKey, pUseOllama, pOllamaModel,
                                    pUseOpenRouter, pOpenRouterApiKey, envOR, FALSE),
                       envG)
    \/ \E env \in StartEnvironments :
            Constructs(ProcessingHelperCtor(env.useOllama, env.ollamaModel,
                                            env.openRouter, env.gemini),
                       ProcessingHelperCall(env.useOllama, env.ollamaModel,
                                            env.openRouter, env.gemini),
                       env.gemini)

\* the local server may hold another list by the time it is probed again
LocalModelLists == ModelLists \cup { <<"Z">> }

NextCtor ==
    \/ \E c \in DOMAIN calls : GetOllamaModels(c)
    \/ \E c \in DOMAIN calls, answer \in TagsAnswers(LocalModelLists) : TagsDone(c, answer)
    \/ \E c \in DOMAIN calls : Release(c)
    \/ \E a \in GeminiSwitchInputs : SwitchToGemini(a.apiKey, a.model)
    \/ \E a \in OpenRouterSwitchInputs : SwitchToOpenRouter(a.apiKey, a.model)
    \/ \E a \in OllamaSwitchInputs : SwitchToOllamaModel(a.model, a.url)
    \/ \E url \in UrlInputs : SwitchToOllamaAuto(url)
    \/ \E answer \in TagsAnswers(LocalModelLists) : ProbeDone(answer)
    \/ \E ok \in BOOLEAN : InitTestDone(ok)
    \/ \E answer \in TagsAnswers(LocalModelLists) : FallbackProbeDone(answer)

SpecCtor == InitCtor /\ [][NextCtor]_vars

\* initializeOllamaModel: its fetches settle, so a run of it goes on
InitializeOllamaModel ==
    \/ \E answer \in TagsAnswers(LocalModelLists) : ProbeDone(answer)
    \/ \E ok \in BOOLEAN : InitTestDone(ok)
    \/ \E answer \in TagsAnswers(LocalModelLists) : FallbackProbeDone(answer)

\* construction in local mode
InitLocal ==
    \/ \E pOllamaModel \in CtorOllamaModels, envG \in EnvGeminiKeys :
            Constructs(LLMHelperCtor(Empty, TRUE, pOllamaModel, "", FALSE, Empty, "", envG, Empty),
                       Construction("LLMHelper", Empty, TRUE, pOllamaModel, FALSE, Empty,
                                    Empty, FALSE),
                       envG)
    \/ \E env \in { e \in Environments : e.useOllama } :
            Constructs(ProcessingHelperCtor(env.useOllama, env.ollamaModel,
                                            env.openRouter, env.gemini),
                       ProcessingHelperCall(env.useOllama, env.ollamaModel,
                                            env.openRouter, env.gemini),
                       env.gemini)

SpecLocalLive == InitLocal /\ [][NextCtor]_vars /\ WF_vars(InitializeOllamaModel)

----------------------------------------------------------------------------
(* Connection tests: testConnection alone, overlapping with itself and     *)
(* with the switches, every answer of the provider included.               *)

TestEnvironments ==
    Environments \cup {
    [ useOllama |-> FALSE, ollamaModel |-> "",  openRouter |-> <<" ">>, gemini |-> <<"e">> ] }

InitTest ==
    \E env \in TestEnvironments :
        /\ Constructs(ProcessingHelperCtor(env.useOllama, env.ollamaModel,
                                           env.openRouter, env.gemini),
                      ProcessingHelperCall(env.useOllama, env.ollamaModel,
                                           env.openRouter, env.gemini),
                      env.gemini)
        /\ Constructed

NextTest ==
    \/ \E c \in DOMAIN calls : TestConnection(c)
    \/ \E c \in DOMAIN calls : RespondOk(c)
    \/ \E c \in DOMAIN calls : RespondEmpty(c)
    \/ \E c \in DOMAIN calls, msg \in FailMessages : RespondFail(c, msg)
    \/ \E c \in DOMAIN calls : Wake(c)
    \/ \E c \in DOMAIN calls, ok \in BOOLEAN : CheckDone(c, ok)
    \/ \E c \in DOMAIN calls, ok \in BOOLEAN : FetchDone(c, ok)
    \/ \E c \in DOMAIN calls : Release(c)
    \/ \E a \in GeminiSwitchInputs : SwitchToGemini(a.apiKey, a.model)
    \/ \E a \in OpenRouterSwitchInputs : SwitchToOpenRouter(a.apiKey, a.model)
    \/ \E a \in OllamaSwitchInputs : SwitchToOllamaModel(a.model, a.url)
    \/ \E url \in UrlInputs : SwitchToOllamaAuto(url)
    \/ \E answer \in TagsAnswers(ModelLists) : ProbeDone(answer)
    \/ \E ok \in BOOLEAN : InitTestDone(ok)
    \/ \E answer \in TagsAnswers(ModelLists) : FallbackProbeDone(answer)

SpecTest == InitTest /\ [][NextTest]_vars

----------------------------------------------------------------------------
(* The controller alone, with the cloud provider active: every request is  *)
(* answered and every backoff timer fires.                                 *)

NextRetry ==
    \/ \E c \in DOMAIN calls : Chat(c)
    \/ \E c \in DOMAIN calls, op \in ConcVoiceOps : VoiceOp(c, op)
    \/ \E c \in DOMAIN calls : RespondOk(c)
    \/ \E c \in DOMAIN calls, msg \in FailMessages : RespondFail(c, msg)
    \/ \E c \in DOMAIN calls : Wake(c)
    \/ \E c \in DOMAIN calls : Release(c)

\* the steps of generateContentWithRetry that follow an await
ControllerStep ==
    \/ \E c \in DOMAIN calls : RespondOk(c)
    \/ \E c \in DOMAIN calls, msg \in FailMessages : RespondFail(c, msg)
    \/ \E c \in DOMAIN calls : Wake(c)

InitRetry ==
    \E env \in CloudEnvironments :
        Constructs(ProcessingHelperCtor(env.useOllama, env.ollamaModel,
                                        env.openRouter, env.gemini),
                   ProcessingHelperCall(env.useOllama, env.ollamaModel,
                                        env.openRouter, env.gemini),
                   env.gemini)

SpecRetryLive == InitRetry /\ [][NextRetry]_vars /\ WF_vars(ControllerStep)

----------------------------------------------------------------------------
(* The operations with the texts of the answers: every request is answered *)
(* with a text or fails, and each operation reads, cleans and parses the   *)
(* text as its code does.                                                  *)

NextText ==
    \/ \E c \in DOMAIN calls : Chat(c)
    \/ \E c \in DOMAIN calls : GenerateSolution(c)
    \/ \E c \in DOMAIN calls, op \in {"extract", "debug"} : StructuredImage(c, op)
    \/ \E c \in DOMAIN calls, op \in {"voiceInterpret", "voiceAnswer"} : VoiceOp(c, op)
    \/ \E c \in DOMAIN calls, readOk \in BOOLEAN : PreDone(c, readOk)
    \/ \E c \in DOMAIN calls, text \in Texts : RespondText(c, text)
    \/ \E c \in DOMAIN calls, msg \in ConcFailMessages : RespondFail(c, msg)
    \/ \E c \in DOMAIN calls : Wake(c)
    \/ \E c \in DOMAIN calls, text \in Texts : FetchText(c, text)
    \/ \E c \in DOMAIN calls : FetchDone(c, FALSE)
    \/ \E c \in DOMAIN calls : Release(c)

SpecText == Init /\ [][NextText]_vars

----------------------------------------------------------------------------
(* The voice pipeline alone: runs of processVoiceRecording, one after the  *)
(* other, with the answers of the provider to each stage.                  *)

\* what the provider may say in a stage: nothing, white space, prose, an
\* object, null
VoiceTexts == { Absent, Wrap("padded", <<>>), <<"h", "i">>,
                Wrap("jsonFence", JsonObjectText), JsonNullText }

NextVoice ==
    \/ \E c \in DOMAIN calls, hasWindow \in BOOLEAN : VoiceRun(c, hasWindow)
    \/ \E c \in DOMAIN calls : TranscriptionDone(c)
    \/ \E c \in DOMAIN calls : InterpretationDone(c)
    \/ \E c \in DOMAIN calls : AnswerDone(c)
    \/ \E c \in DOMAIN calls, text \in VoiceTexts : RespondText(c, text)
    \/ \E c \in DOMAIN calls, msg \in ConcFailMessages : RespondFail(c, msg)
    \/ \E c \in DOMAIN calls : Wake(c)

SpecVoice == Init /\ [][NextVoice]_vars

----------------------------------------------------------------------------
(* processScreenshots alone: calls one after the other, cancelled at any   *)
(* time, with the answers of the provider to each operation.               *)

ScreensTexts == VoiceTexts \cup { SolutionObjectText }

NextScreens ==
    \/ \E c \in DOMAIN calls, hasWindow \in BOOLEAN, queue \in {"empty", "audio", "image"}, extra \in BOOLEAN : ProcessScreenshots(c, hasWindow, queue, extra)
    \/ \E c \in DOMAIN calls, readOk \in BOOLEAN, hasWindow \in BOOLEAN : ScreensAudioRead(c, readOk, hasWindow)
    \/ \E c \in DOMAIN calls : TranscriptionDone(c)
    \/ \E c \in DOMAIN calls : InterpretationDone(c)
    \/ \E c \in DOMAIN calls : AnswerDone(c)
    \/ \E c \in DOMAIN calls : ScreensImageDone(c)
    \/ \E c \in DOMAIN calls : ScreensSolutionDone(c)
    \/ \E c \in DOMAIN calls : ScreensDebugDone(c)
    \/ CancelOngoingRequests
    \/ \E c \in DOMAIN calls, readOk \in BOOLEAN : PreDone(c, readOk)
    \/ \E c \in DOMAIN calls, text \in ScreensTexts : RespondText(c, text)
    \/ \E c \in DOMAIN calls, msg \in ConcFailMessages : RespondFail(c, msg)
    \/ \E c \in DOMAIN calls : Wake(c)
    \/ \E c \in DOMAIN calls, text \in ScreensTexts : FetchText(c, text)
    \/ \E c \in DOMAIN calls : FetchDone(c, FALSE)

SpecScreens == Init /\ [][NextScreens]_vars

----------------------------------------------------------------------------
(* The model selector, ModelSelector.tsx: its buttons, testConnection,     *)
(* handleProviderSwitch and loadCurrentConfig.  The requests go to the     *)
(* main process through window.electronAPI; each is answered with a        *)
(* success, with a failure, or rejects.                                    *)

Providers == {"gemini", "openrouter", "ollama"}
IpcOutcomes == {"success", "failure", "throw"}

\* if (isLoading) return the placeholder: no button is rendered
Rendered == ~selector.isLoading

ApplyDisabledNever == FALSE

\* disabled={connectionStatus === 'testing'} of the Apply Changes button
ApplyDisabled == selector.connectionStatus = "testing"

\* disabled={connectionStatus === 'testing'} of the Test button
TestDisabled == selector.connectionStatus = "testing"

RemoveAt(seq, i) == SubSeq(seq, 1, i - 1) \o SubSeq(seq, i + 1, Len(seq))

SelectorFrame ==
    UNCHANGED <<router, envGemini, ctor, voice, screens, calls, init, sw,
                nswaps, nswitch, ncalls>>

\* onClick={() => setSelectedProvider(p)}
SelectProvider(p) ==
    /\ Rendered
    /\ selector.selectedProvider # p
    /\ selector' = [selector EXCEPT !.selectedProvider = p]
    /\ SelectorFrame

\* a click on Test: testConnection up to its await
ClickTest ==
    /\ Rendered
    /\ ~TestDisabled
    /\ Len(selector.handlers) < MaxCalls
    /\ selector' = [selector EXCEPT !.connectionStatus = "testing",
                                    !.handlers = Append(@, Handler("test", "ipc"))]
    /\ SelectorFrame

\* a click on Apply Changes: handleProviderSwitch up to its await
ClickApply ==
    /\ Rendered
    /\ ~ApplyDisabled
    /\ Len(selector.handlers) < MaxCalls
    /\ selector' = [selector EXCEPT !.connectionStatus = "testing",
                                    !.handlers = Append(@, Handler("switch", "ipc"))]
    /\ SelectorFrame

\* the handler ends with the connection status it sets last
Ended(sel, i, status) ==
    [sel EXCEPT !.connectionStatus = status,
                !.handlers = RemoveAt(@, i),
                !.last = [ op |-> sel.handlers[i].op, outcome |-> status ]]

\* testLlmConnection or switchTo... is over: success or error is set; after
\* a successful switch loadCurrentConfig runs up to its await
IpcDone(i, outcome) ==
    /\ i \in DOMAIN selector.handlers
    /\ selector.handlers[i].pc = "ipc"
    /\ selector' =
          IF outcome # "success" THEN Ended(selector, i, "error")
          ELSE IF selector.handlers[i].op = "test" THEN Ended(selector, i, "success")
          ELSE [selector EXCEPT !.isLoading = TRUE, !.handlers[i].pc = "config"]
    /\ SelectorFrame

\* loadCurrentConfig returns (it catches every error; finally
\* setIsLoading(false)): the effect is over, handleProviderSwitch sets
\* success
LoadReturns(sel, i) ==
    IF sel.handlers[i].op = "mount"
    THEN [sel EXCEPT !.isLoading = FALSE, !.handlers = RemoveAt(@, i)]
    ELSE Ended([sel EXCEPT !.isLoading = FALSE], i, "success")

\* getCurrentLlmConfig is over: the provider of the answer is selected, and
\* for the local provider loadOllamaModels is awaited; a rejection ends
\* loadCurrentConfig
ConfigDone(i, provider, threw) ==
    /\ i \in DOMAIN selector.handlers
    /\ selector.handlers[i].pc = "config"
    /\ selector' =
          IF threw THEN LoadReturns(selector, i)
          ELSE IF provider = "ollama"
          THEN [selector EXCEPT !.selectedProvider = provider,
                                !.handlers[i].pc = "models"]
          ELSE LoadReturns([selector EXCEPT !.selectedProvider = provider], i)
    /\ SelectorFrame

\* getAvailableOllamaModels is over (loadOllamaModels catches a rejection)
ModelsDone(i) ==
    /\ i \in DOMAIN selector.handlers
    /\ selector.handlers[i].pc = "models"
    /\ selector' = LoadReturns(selector, i)
    /\ SelectorFrame

NextSelector ==
    \/ \E p \in Providers : SelectProvider(p)
    \/ ClickTest
    \/ ClickApply
    \/ \E i \in 1..MaxCalls, outcome \in IpcOutcomes : IpcDone(i, outcome)
    \/ \E i \in 1..MaxCalls, provider \in Providers, threw \in BOOLEAN : ConfigDone(i, provider, threw)
    \/ \E i \in 1..MaxCalls : ModelsDone(i)

SpecSelector == Init /\ [][NextSelector]_vars

----------------------------------------------------------------------------
(* Properties of the retry/failover controller.                            *)

\* a failure the controller treats as an overload: its message has the
\* server-busy marker and it was not answered by a credential swap
Overloaded(o) == OverloadMarker \in o.msg /\ o.did # "swap"

ThreeOverloads(call) ==
    LET n == Len(call.outs)
    IN  n >= 3 /\ \A i \in (n - 2)..n : Overloaded(call.outs[i])

\* C1: an invocation whose three consecutive attempts fail with an overload
\* error waits 1000 ms after the first failure and 2000 ms after the second,
\* and raises the third failure: no third wait, no fourth request.
C1_ThreeOverloadsBackoff ==
    \A c \in DOMAIN calls :
        LET call == calls[c]
            n == Len(call.outs)
        IN  ThreeOverloads(call) =>
                /\ call.outs[n - 2].did = "wait"
                /\ call.outs[n - 1].did = "wait"
                /\ call.outs[n].did = "throw"
                /\ call.waits = <<1000, 2000>>
                /\ call.ctl = "thrown"
                /\ call.err = call.outs[n].msg
                /\ Len(call.reqs) = n

C1_Witness ==
    \E c \in DOMAIN calls :
        /\ ThreeOverloads(calls[c])
        /\ calls[c].ctl = "thrown"
        /\ calls[c].outs[1].msg = {"503"}

\* the first attempt failed with a rate-limit error while the fallback
\* credential was configured and not in use: the controller swapped
FirstAttemptSwapped(call) ==
    /\ Len(call.outs) >= 1
    /\ call.outs[1].did = "swap"
    /\ call.reqs[1].slot = 0

\* C2: for every operation that goes through the controller, after a
\* rate-limit failure of the first attempt with the fallback credential
\* configured and unused, the retry is issued at once, with a client built
\* from the fallback credential, and a successful retry is the operation's
\* result.
C2_RetryUsesFallback ==
    \A c \in DOMAIN calls :
        LET call == calls[c]
        IN  FirstAttemptSwapped(call) =>
                /\ Len(call.reqs) >= 2
                /\ call.reqs[2].key = FallbackGeminiApiKey
                /\ (Len(call.outs) >= 2 /\ call.outs[2].did = "return"
                        => call.res = "value" /\ call.waits = <<>>)

\* C3: the credential swap executes at most once, whatever the operations,
\* connection tests and switches and however they interleave.
C3_SwapAtMostOnce == nswaps <= 1

\* after the swap and a switch to the cloud provider, a rate-limit failure
\* is raised while another operation is in flight
C3_Witness ==
    /\ nswaps = 1
    /\ sw.op = "gemini" /\ sw.state = "done"
    /\ \E c, d \in DOMAIN calls :
        /\ c # d
        /\ calls[c].ctl = "thrown" /\ IsRateLimitError(calls[c].err)
        /\ calls[d].pc = "awaiting"

\* C4: an invocation of the controller ends by returning a provider
\* response or by raising the failure of its last attempt; it never
\* completes normally without a response.
C4_NeverUndefined ==
    \A c \in DOMAIN calls : calls[c].ctl # "undefined"

\* the answer that operation c receives in this step
Answer(c) == calls'[c].outs[Len(calls'[c].outs)]

Answers(c) ==
    calls[c].pc = "awaiting" /\ Len(calls'[c].outs) = Len(calls[c].outs) + 1

\* C5: a failed attempt that is not overloaded, and is either not
\* rate-limited or rate-limited with the fallback already in use, is raised
\* unchanged right after that attempt: no wait, no further request, and the
\* credential, the clients and the flag stay as they are.
C5_OtherFailurePropagates ==
    [][ \A c \in DOMAIN calls :
          ( /\ Answers(c)
            /\ Answer(c).msg # OkMessage
            /\ OverloadMarker \notin Answer(c).msg
            /\ (Answer(c).msg \cap RateLimitMarkers = {} \/ usingFallbackKey) )
          => /\ calls'[c].pc = "done"
             /\ calls'[c].ctl = "thrown"
             /\ calls'[c].err = Answer(c).msg
             /\ calls'[c].waits = calls[c].waits
             /\ calls'[c].reqs = calls[c].reqs
             /\ geminiApiKey' = geminiApiKey
             /\ model' = model
             /\ geminiVoiceClient' = geminiVoiceClient
             /\ usingFallbackKey' = usingFallbackKey ]_vars

\* a rate-limit failure is raised with the fallback in use, after the swap
\* made by an earlier attempt of the same invocation
C5_Witness ==
    \E c \in DOMAIN calls :
        /\ calls[c].ctl = "thrown"
        /\ calls[c].err = {"429"}
        /\ Len(calls[c].outs) = 2
        /\ calls[c].outs[1].did = "swap"
        /\ usingFallbackKey

\* C6: a credential swap does not consume an attempt slot: the request that
\* follows a swap runs in the slot of the request that was rate-limited.
C6_SwapKeepsSlot ==
    \A c \in DOMAIN calls :
        \A i \in 1..Len(calls[c].outs) :
            (calls[c].outs[i].did = "swap" /\ Len(calls[c].reqs) > i)
                => calls[c].reqs[i + 1].slot = calls[c].reqs[i].slot

\* C7: once usingFallbackKey is true, no operation other than a switch sets
\* it back to false or replaces the credential or the cloud client.
C7_FallbackMonotone ==
    [][ (usingFallbackKey /\ nswitch' = nswitch)
          => /\ usingFallbackKey'
             /\ geminiApiKey' = geminiApiKey
             /\ model' = model ]_vars

\* a voice operation has run to its end after the swap of an earlier
\* operation, with the environment holding a primary credential
C7_Witness ==
    /\ usingFallbackKey
    /\ nswaps = 1
    /\ Trim(envGemini) # Empty
    /\ \E c \in DOMAIN calls :
        /\ calls[c].op \in VoiceOps
        /\ calls[c].res = "value"
        /\ \A i \in 1..Len(calls[c].outs) : calls[c].outs[i].did # "swap"

----------------------------------------------------------------------------
(* Properties of the provider switches.                                    *)

\* this step is an invocation of the switch operation op
Switches(op) == nswitch' = nswitch + 1 /\ sw'.op = op

\* C8: a successful switchToGemini with a new non-empty credential, made
\* while usingFallbackKey is true, resets usingFallbackKey.
C8_SwitchResetsFallback ==
    [][ ( /\ Switches("gemini")
          /\ sw'.state = "done"
          /\ Trim(sw'.apiKey) # Empty
          /\ usingFallbackKey )
          => ~usingFallbackKey' ]_vars

\* C9: switchToGemini without a credential (argument, stored, environment)
\* and switchToOpenRouter without a credential (argument, stored) raise an
\* error and leave the router's state as it was.
C9_FailedSwitchChangesNothing ==
    [][ /\ ( /\ Switches("gemini")
             /\ Trim(sw'.apiKey) = Empty
             /\ geminiApiKey = Empty
             /\ Trim(envGemini) = Empty )
           => (sw'.state = "failed" /\ UNCHANGED router)
        /\ ( /\ Switches("openrouter")
             /\ Trim(sw'.apiKey) = Empty
             /\ openRouterApiKey = Empty )
           => (sw'.state = "failed" /\ UNCHANGED router)
        /\ (nswitch' = nswitch + 1 /\ sw'.state = "failed")
           => UNCHANGED router ]_vars

C9_Witness ==
    /\ sw.state = "failed"
    /\ sw.op = "gemini"
    /\ useOllama

\* C10: an operation that runs while a switch is in flight sees the
\* provider kind, model and endpoint of before the switch or those of
\* after it, never a mixture.
C10_NoPartialSwitch ==
    sw.state = "done" => \A o \in sw.seen : o = sw.pre \/ o = sw.post

----------------------------------------------------------------------------
(* Properties of the provider state.                                       *)

\* C11: in every reachable state the flags useOllama and useOpenRouter are
\* never both true.
C11_OneProviderFlag == ~(useOllama /\ useOpenRouter)

\* C12: every step that is not the invocation of a switch (the steps of
\* chat, of the image, audio, solution and voice operations, of
\* testConnection and of getOllamaModels, a credential swap included) leaves
\* the provider kind reported by getCurrentProvider unchanged.
C12_ProviderOnlyBySwitch ==
    [][ nswitch' = nswitch => getCurrentProvider' = getCurrentProvider ]_vars

\* an operation has ended after a credential swap made inside it
C12_Witness ==
    /\ nswitch = 0
    /\ getCurrentProvider = "gemini"
    /\ \E c \in DOMAIN calls :
        /\ calls[c].pc = "done"
        /\ \E i \in 1..Len(calls[c].outs) : calls[c].outs[i].did = "swap"

\* C13: in every reachable state the active provider has its credential:
\* the gateway a non-empty openRouterApiKey, the cloud model a non-empty
\* geminiApiKey and a cloud client.
C13_ActiveHasCredential ==
    Constructed =>
        /\ getCurrentProvider = "openrouter" => openRouterApiKey # Empty
        /\ getCurrentProvider = "gemini" => (geminiApiKey # Empty /\ model # Null)

\* this step is a step of the testConnection in slot c
TestStep(c) ==
    /\ calls'[c] # calls[c]
    /\ calls[c].op = "test" \/ calls'[c].op = "test"

\* C14: no step of testConnection, whatever the provider answers, changes
\* the provider flags, model names, endpoint, credentials, clients or
\* usingFallbackKey.
C14_TestConnectionFrame ==
    [][ \A c \in DOMAIN calls : TestStep(c) => UNCHANGED router ]_vars

----------------------------------------------------------------------------
(* Properties of the construction.                                         *)

\* the state right after the construction
AfterConstruction == Constructed /\ nswitch = 0 /\ nswaps = 0 /\ ncalls = 0

\* no cloud credential, no gateway credential and no local mode
NothingConfigured ==
    /\ Trim(ctor.apiKey) = Empty
    /\ Trim(envGemini) = Empty
    /\ Trim(ctor.openRouterApiKey) = Empty
    /\ Trim(ctor.envOpenRouter) = Empty
    /\ ~ctor.useOllama

\* the built-in fallback is selected: no cloud credential, neither local
\* nor gateway mode requested
FallbackSelected ==
    /\ Trim(ctor.apiKey) = Empty
    /\ Trim(envGemini) = Empty
    /\ ~ctor.useOllama
    /\ ~ctor.useOpenRouter

\* C16: after construction the cloud credential is the trimmed argument if
\* non-empty, else the trimmed environment credential if non-empty, else the
\* built-in fallback when neither local nor gateway mode is requested, and
\* usingFallbackKey is true exactly when the fallback was selected.
C16_CredentialPrecedence ==
    AfterConstruction =>
        /\ geminiApiKey =
              IF Trim(ctor.apiKey) # Empty THEN Trim(ctor.apiKey)
              ELSE IF Trim(envGemini) # Empty THEN Trim(envGemini)
              ELSE IF FallbackSelected THEN FallbackGeminiApiKey
              ELSE Empty
        /\ usingFallbackKey <=> FallbackSelected

\* constructed directly with a blank credential argument and a credential
\* in the environment
C16_Witness ==
    /\ AfterConstruction
    /\ ctor.by = "LLMHelper"
    /\ ctor.apiKey = <<" ">>
    /\ envGemini = <<" ", "e">>
    /\ geminiApiKey = <<"e">>
    /\ ~usingFallbackKey

\* C17: with no gateway credential, no cloud credential and no local mode,
\* the construction raises and no provider becomes active, for LLMHelper
\* constructed directly and for ProcessingHelper.
C17_NothingConfiguredRaises ==
    NothingConfigured => (ctor.threw /\ model = Null /\ ~useOllama /\ ~useOpenRouter)

----------------------------------------------------------------------------
(* Properties of the switch to the cloud model and of local mode.          *)

\* C18: after a successful switchToGemini(k, m), getCurrentProvider is
\* "gemini" and getCurrentModel is m if m was given, otherwise the cloud
\* model configured before.
C18_SwitchToGeminiRoundTrip ==
    [][ (Switches("gemini") /\ sw'.state = "done")
          => /\ getCurrentProvider' = "gemini"
             /\ getCurrentModel' = IF sw'.model # "" THEN sw'.model ELSE geminiModel ]_vars

C18_Witness ==
    /\ sw.op = "gemini"
    /\ sw.state = "done"
    /\ sw.model = "m"
    /\ sw.pre.kind = "ollama"
    /\ getCurrentProvider = "gemini"
    /\ getCurrentModel = "m"

\* the model name the constructor configures in local mode
Configured == IF ctor.ollamaModel # "" THEN ctor.ollamaModel ELSE CtorOllamaModel

Names(list) == { list[i] : i \in 1..Len(list) }

\* the probe of the initialisation started by the constructor has returned
\* the non-empty list, which lacks the configured model, and no switch was
\* invoked
CtorProbed(list) ==
    /\ ctor.useOllama /\ ~ctor.useOpenRouter
    /\ ~init.bySwitch
    /\ init.pc = "test"
    /\ init.probed = list
    /\ Configured \notin Names(list)
    /\ nswitch = 0

\* C19: constructed in local mode with a configured model that the probed,
\* non-empty list lacks, the construction does not fail and, whether the
\* test request succeeds or fails, getCurrentModel becomes the first model
\* of the probed list (unless a switch is invoked meanwhile).
C19_FirstModelSelected ==
    \A list \in LocalModelLists \ { <<>> } :
        CtorProbed(list) ~>
            \/ Constructed /\ init.pc # "test" /\ getCurrentModel = list[1]
            \/ nswitch > 0

\* the test request failed and the model is the first of the probed list
C19_Witness ==
    /\ ctor.useOllama /\ ~ctor.useOpenRouter
    /\ ctor.ollamaModel = ""
    /\ ~init.bySwitch
    /\ init.pc = "probe2"
    /\ init.probed = <<"Y", "X">>
    /\ nswitch = 0
    /\ getCurrentModel = "Y"

\* C20: when the probe of the initialisation returns nothing, nothing is
\* raised, the provider flags stay and the local model name stays as it was
\* (as the constructor configured it, when no switch was invoked);
\* getOllamaModels never raises and returns [] for a failed probe.
C20_FailedProbeKeepsModel ==
    [][ /\ (init.pc = "probe1" /\ init'.pc = "idle")
           => /\ Constructed
              /\ useOllama' = useOllama
              /\ useOpenRouter' = useOpenRouter
              /\ ollamaModel' = ollamaModel
              /\ (~init.bySwitch /\ nswitch = 0) => ollamaModel' = Configured
        /\ \A c \in DOMAIN calls :
              (calls'[c].op = "models" /\ calls'[c].pc = "done")
                => /\ calls'[c].res = "value"
                   /\ (calls'[c].outs # <<>> /\ calls'[c].outs[1].msg # OkMessage)
                        => calls'[c].list = <<>> ]_vars

\* the initialisation ended with the configured model, which no list holds,
\* and getOllamaModels has returned [] for a rejected fetch
C20_Witness ==
    /\ ctor.useOllama /\ ~ctor.useOpenRouter
    /\ ctor.ollamaModel = ""
    /\ init.pc = "idle"
    /\ nswitch = 0
    /\ getCurrentProvider = "ollama"
    /\ getCurrentModel = CtorOllamaModel
    /\ \E c \in DOMAIN calls :
        /\ calls[c].op = "models"
        /\ calls[c].pc = "done"
        /\ calls[c].outs = << [msg |-> FetchFailedMessage, did |-> "return"] >>
        /\ calls[c].list = <<>>

----------------------------------------------------------------------------
(* Properties of the routing.                                              *)

\* the operation in slot c starts in this step
Starts(c, ops) == calls[c].op = "none" /\ calls'[c].op \in ops

BinaryOps == {"image", "audioFile", "audioBase64"}

\* C21: with the gateway active, analyzeImageFile, analyzeAudioFile and
\* analyzeAudioFromBase64 go to the gateway with a text-only request: no
\* cloud request, no cloud credential needed, no failure before the request.
C21_GatewayDegradesBinary ==
    [][ \A c \in DOMAIN calls :
          (Starts(c, BinaryOps) /\ useOpenRouter /\ openRouterApiKey # Empty)
            => /\ calls'[c].target = "openrouter"
               /\ calls'[c].pc = "fetch"
               /\ calls'[c].client = Undefined
               /\ UNCHANGED router ]_vars

\* C22: chat sends its request to the provider getCurrentProvider reports
\* when it is called, and to no other: it goes nowhere only when it fails
\* before any request, and the provider it went to stays the same until it
\* ends.
C22_ChatRoutesToActive ==
    [][ \A c \in DOMAIN calls :
          /\ Starts(c, {"chat"})
               => \/ calls'[c].target = getCurrentProvider
                  \/ /\ calls'[c].target = "none"
                     /\ calls'[c].res = "raised"
                     /\ calls'[c].reqs = <<>>
          /\ (calls[c].op = "chat" /\ calls'[c].op = "chat")
               => calls'[c].target = calls[c].target
          /\ calls'[c].op = "chat"
               => /\ calls'[c].reqs # <<>> => calls'[c].target = "gemini"
                  /\ calls'[c].pc = "fetch" => calls'[c].target \in {"openrouter", "ollama"} ]_vars

\* a chat went to the gateway after a switch from the cloud provider, whose
\* client still exists
C22_Witness ==
    /\ sw.op = "openrouter" /\ sw.state = "done"
    /\ sw.pre.kind = "gemini"
    /\ model # Null
    /\ \E c \in DOMAIN calls :
        /\ calls[c].op = "chat"
        /\ calls[c].pc = "done"
        /\ calls[c].target = "openrouter"
        /\ calls[c].res = "value"

\* C29: after a credential swap, every cloud request of a call started
\* afterwards goes out with the fallback credential, whichever provider is
\* active (no switch being invoked).  With one operation at a time, a call
\* without a swap of its own that runs when a swap has happened started
\* after it.
C29_LaterCallsUseFallback ==
    \A c \in DOMAIN calls :
        ( /\ nswaps >= 1
          /\ nswitch = 0
          /\ \A i \in 1..Len(calls[c].outs) : calls[c].outs[i].did # "swap" )
        => \A i \in 1..Len(calls[c].reqs) : calls[c].reqs[i].key = FallbackGeminiApiKey

\* C30: one invocation of the controller issues at most 3 requests and
\* makes at most 2 backoff waits, the k-th of 1000 * 2^(k-1) ms, and, its
\* requests being answered, it ends.
C30_BoundedAndTerminates ==
    /\ [](\A c \in Slots :
            /\ Len(calls[c].reqs) <= 3
            /\ Len(calls[c].waits) <= 2
            /\ \A k \in 1..Len(calls[c].waits) : calls[c].waits[k] = 1000 * 2^(k - 1))
    /\ \A c \in Slots : (calls[c].ctl = "running") ~> (calls[c].pc = "done")

\* three requests and two waits, the third request answered by the swap
C30_Witness ==
    \E c \in DOMAIN calls :
        /\ calls[c].ctl = "undefined"
        /\ Len(calls[c].reqs) = 3
        /\ calls[c].waits = <<1000, 2000>>
        /\ calls[c].outs[3].did = "swap"

----------------------------------------------------------------------------
(* Properties of the response texts.                                       *)

\* a body without surrounding white space and without fences of its own
CleanBodies == { body \in Bodies : Trim(body) = body /\ ~StartsWith(body, Fence)
                                   /\ ~EndsWith(body, Fence) }

\* C25: whenever an operation has called cleanJsonResponse on a text, the
\* result is exactly the body b if the text is a fence line (three
\* backquotes, optionally json, a line feed), b, a line feed and a closing
\* fence, and it is b as well if the text is b unfenced with white space
\* around it or b itself.
C25_CleanReturnsBody ==
    \A c \in DOMAIN calls :
        calls[c].cleaned # NoText =>
            /\ \A w \in {"plain", "padded", "fence", "jsonFence"}, body \in CleanBodies :
                   calls[c].text = Wrap(w, body) => calls[c].cleaned = body
            /\ (~StartsWith(calls[c].text, Fence) /\ ~EndsWith(calls[c].text, Fence))
                   => calls[c].cleaned = Trim(calls[c].text)

C25_Witness ==
    \E c \in DOMAIN calls :
        /\ calls[c].text = Wrap("fence", JsonObjectText)
        /\ calls[c].cleaned = JsonObjectText
        /\ calls[c].op = "solution"

\* the operation in slot c has ended on a successful answer of its provider
Answered(c) ==
    /\ calls[c].pc = "done"
    /\ calls[c].outs # <<>>
    /\ calls[c].outs[Len(calls[c].outs)] = [msg |-> OkMessage, did |-> "return"]

\* C26: in every structured operation, on every provider path, an answer
\* whose text is a body wrapped in a leading and a trailing code fence ends
\* as the unwrapped body would: with the parsed value of the body.
C26_FencedParsesAlike ==
    \A c \in DOMAIN calls :
        (Answered(c) /\ calls[c].op \in StructuredOps) =>
            \A w \in {"fence", "jsonFence"}, body \in CleanBodies :
                (calls[c].text = Wrap(w, body) /\ JsonParse(body).ok) =>
                    /\ calls[c].res = "value"
                    /\ calls[c].value = JsonParse(body).value

\* the text cannot be parsed, cleaned or not
Malformed(text) ==
    /\ text # Absent
    /\ ~JsonParse(text).ok
    /\ ~JsonParse(cleanJsonResponse(text)).ok

\* C27: when the provider answers a structured operation successfully, the
\* operation ends in that step and issues no further request; if the text
\* of the answer fails JSON parsing, it ends by raising to its caller.
C27_ParseFailureNotRetried ==
    [][ \A c \in DOMAIN calls :
            ( /\ calls[c].pc \in {"awaiting", "fetch"}
              /\ calls[c].op \in StructuredOps
              /\ Len(calls'[c].outs) = Len(calls[c].outs) + 1
              /\ Answer(c) = [msg |-> OkMessage, did |-> "return"] )
            => /\ calls'[c].pc = "done"
               /\ calls'[c].reqs = calls[c].reqs
               /\ Malformed(calls'[c].text) => calls'[c].res = "raised" ]_vars

C27_Witness ==
    \E c \in DOMAIN calls :
        /\ Answered(c)
        /\ calls[c].op = "voiceInterpret"
        /\ calls[c].text = Wrap("jsonFence", <<"{">>)
        /\ calls[c].cleaned = <<"{">>
        /\ calls[c].res = "raised"
        /\ calls[c].err = SyntaxErrorMessage
        /\ Len(calls[c].reqs) = 1

\* C28: generateVoiceResponse raises whenever the first text part of the
\* answer is absent, empty or white space only, and never returns the empty
\* string; chat ends with a value whatever the text is, and the value is the
\* text the provider gave.
C28_BlankAnswers ==
    \A c \in DOMAIN calls :
        Answered(c) =>
            /\ calls[c].op = "voiceAnswer" =>
                  /\ (calls[c].text = Absent \/ Trim(calls[c].text) = Empty)
                         => calls[c].res = "raised"
                  /\ calls[c].res = "value" => calls[c].value \notin {Empty, Absent}
            /\ calls[c].op = "chat" =>
                  /\ calls[c].res = "value"
                  /\ calls[c].value = calls[c].text

C28_Witness ==
    \E c \in DOMAIN calls :
        /\ Answered(c)
        /\ calls[c].op = "voiceAnswer"
        /\ calls[c].text = Wrap("padded", <<>>)
        /\ calls[c].res = "raised"
        /\ calls[c].err = EmptyVoiceMessage

----------------------------------------------------------------------------
(* Properties of the voice pipeline.                                       *)

EventNames(events) == [ i \in 1..Len(events) |-> events[i].name ]

StageNames(stages) == [ i \in 1..Len(stages) |-> stages[i].name ]

StageOrder == <<"transcription", "interpretation", "answer">>

\* the stage the run is in has failed
StageFailed(c) ==
    /\ VoiceRunning /\ voice.slot = c
    /\ calls[c].pc = "done" /\ calls[c].res # "value"

\* C23: when the stage a run awaits has failed, the step that takes the
\* failure invokes no later stage, leaves the problem info of the app state
\* as it was, sends INITIAL_SOLUTION_ERROR with the message of that stage
\* and nothing else, and raises the error; a run that raised has sent
\* neither PROBLEM_EXTRACTED nor SOLUTION_SUCCESS, and the problem info
\* changes only in a step that ends a run successfully.
C23_StageFailureAborts ==
    /\ [][ \A c \in DOMAIN calls :
               (StageFailed(c) /\ voice' # voice) =>
                   /\ voice'.pc = "raised"
                   /\ voice'.err = calls[c].err
                   /\ voice'.stages = voice.stages
                   /\ voice'.problemInfo = voice.problemInfo
                   /\ voice'.events =
                          Append(voice.events, Event("INITIAL_SOLUTION_ERROR", calls[c].err))
                   /\ calls'[c].pc = "idle" ]_vars
    /\ [][ voice'.problemInfo # voice.problemInfo => voice'.pc = "returned" ]_vars
    /\ [](voice.pc = "raised" =>
             \A i \in 1..Len(voice.events) :
                 voice.events[i].name \notin {"PROBLEM_EXTRACTED", "SOLUTION_SUCCESS"})

C23_Witness ==
    /\ voice.pc = "raised"
    /\ voice.prev = "returned"
    /\ StageNames(voice.stages) = <<"transcription", "interpretation">>
    /\ voice.err = SyntaxErrorMessage
    /\ EventNames(voice.events) = <<"INITIAL_START", "INITIAL_SOLUTION_ERROR">>
    /\ voice.problemInfo # NoProblemInfo

\* a run starts and gets past the main window test
RunStarts == voice'.runs = voice.runs + 1 /\ voice'.pc # "raised"

\* C24: a run, the run after a failed run included, starts by invoking the
\* transcription and nothing else; the stages a run invokes are a prefix of
\* transcription, interpretation, answer; the interpretation is invoked
\* with the text the transcription returned, the answer with that text and
\* the value the interpretation returned; a run that returned has invoked
\* all three and sent INITIAL_START, PROBLEM_EXTRACTED, SOLUTION_SUCCESS in
\* this order.
C24_PipelineOrder ==
    /\ [][ RunStarts =>
               /\ voice'.pc = "transcribing"
               /\ StageNames(voice'.stages) = <<"transcription">>
               /\ calls'[voice'.slot].op = "audioBase64" ]_vars
    /\ [][ /\ (voice.pc = "transcribing" /\ Len(voice'.stages) = 2)
                  => /\ calls[voice.slot].res = "value"
                     /\ voice'.stages[2].transcript = calls[voice.slot].value
           /\ (voice.pc = "interpreting" /\ Len(voice'.stages) = 3)
                  => /\ calls[voice.slot].res = "value"
                     /\ voice'.stages[3].transcript = voice.stages[2].transcript
                     /\ voice'.stages[3].interpretation = calls[voice.slot].value ]_vars
    /\ [](/\ StageNames(voice.stages) = SubSeq(StageOrder, 1, Len(voice.stages))
          /\ voice.pc = "returned" =>
                /\ StageNames(voice.stages) = StageOrder
                /\ EventNames(voice.events) =
                       <<"INITIAL_START", "PROBLEM_EXTRACTED", "SOLUTION_SUCCESS">>)

C24_Witness ==
    /\ voice.pc = "returned"
    /\ voice.prev = "raised"
    /\ voice.stages[3] = Stage("answer", <<"h", "i">>, JsonObject)
    /\ voice.answer = <<"h", "i">>

----------------------------------------------------------------------------
(* Properties of the activation of the local provider.                     *)

\* the last switch operation was a switchToOllama that returned
SwitchedToOllama == sw.op = "ollama" /\ sw.state = "done"

\* C31: when switchToOllama has returned, from whichever provider was
\* active, getCurrentProvider reports ollama and getCurrentModel the local
\* model name, and a chat that starts before any other switch goes to the
\* local endpoint.
C31_SwitchToOllamaActivates ==
    /\ [](SwitchedToOllama =>
             /\ sw.post.kind = "ollama"
             /\ sw.model # "" => sw.post.model = sw.model)
    /\ [][ \A c \in DOMAIN calls :
               (SwitchedToOllama /\ Starts(c, {"chat"}))
                   => calls'[c].target = "ollama" ]_vars

\* non-empty model lists a local server may hold
ServerLists == { <<"Y">>, <<"Y", "Z">>, <<"Y", "X">> }

\* C32: when switchToOllama called with a model name returns, then for every
\* non-empty model list the endpoint may hold that lacks the name, the local
\* model is the first model of that list.
C32_SwitchProbesList ==
    [][ (sw' # sw /\ sw'.op = "ollama" /\ sw'.state = "done" /\ sw'.model # "")
            => \A list \in ServerLists :
                   sw'.model \notin Names(list) => ollamaModel' = list[1] ]_vars

----------------------------------------------------------------------------
(* Properties of the dispatch of the operations.                           *)

\* C33: the request generateSolution sends when it starts goes to the
\* provider getCurrentProvider reports at that time: a cloud request only
\* when the cloud provider is active, a gateway or local request only to
\* the active one of the two.
C33_SolutionRoutesToActive ==
    [][ \A c \in DOMAIN calls :
            Starts(c, {"solution"}) =>
                /\ calls'[c].reqs # <<>> => getCurrentProvider = "gemini"
                /\ calls'[c].pc = "fetch" => calls'[c].target = getCurrentProvider ]_vars

----------------------------------------------------------------------------
(* Properties of the cleaning of fenced texts with white space around.     *)

\* C34: whenever an operation has called cleanJsonResponse on a text that is
\* a fenced body with white space before the opening fence and after the
\* closing fence, or with a single line feed after the closing fence, the
\* result is exactly the body.
C34_CleanStripsPaddedFence ==
    \A c \in DOMAIN calls :
        calls[c].cleaned # NoText =>
            \A w \in {"paddedFence", "fenceNewline"}, body \in CleanBodies :
                calls[c].text = Wrap(w, body) => calls[c].cleaned = body

----------------------------------------------------------------------------
(* Properties of the initialisation of the local model.                    *)

\* the initialisation started by the constructor has probed a non-empty
\* list that holds the configured model, and no switch was invoked
CtorProbedConfigured ==
    /\ ctor.useOllama /\ ~ctor.useOpenRouter
    /\ ~init.bySwitch
    /\ init.pc \in {"test", "probe2"}
    /\ Configured \in Names(init.probed)
    /\ nswitch = 0

\* C35: when the list probed by the initialisation is non-empty and holds
\* the configured model, the local model name stays the configured one in
\* every later step of the initialisation, whether the test request
\* succeeds or fails.
C35_ListedModelKept ==
    [][ (CtorProbedConfigured /\ nswitch' = 0) => ollamaModel' = Configured ]_vars

----------------------------------------------------------------------------
(* Properties of the start of ProcessingHelper.                            *)

----------------------------------------------------------------------------
(* Properties of processScreenshots and cancelOngoingRequests.             *)

\* the events the processScreenshots call has sent so far, those of the
\* processVoiceRecording it called included
ScreensSent ==
    screens.events \o (IF screens.nested THEN voice.events ELSE <<>>)

CountEvents(events, names) ==
    Cardinality({ i \in DOMAIN events : events[i].name \in names })

\* C37: every processScreenshots call sends at most one start event
\* (INITIAL_START or DEBUG_START) and at most one terminal error event
\* (INITIAL_SOLUTION_ERROR or DEBUG_ERROR), also when the last queued file
\* is a recording
C37_OneStartOneError ==
    /\ CountEvents(ScreensSent, {"INITIAL_START", "DEBUG_START"}) <= 1
    /\ CountEvents(ScreensSent, {"INITIAL_SOLUTION_ERROR", "DEBUG_ERROR"}) <= 1

\* the events a step sends for the processScreenshots call in flight
NewScreensEvents ==
    { screens'.events[i].name : i \in (DOMAIN screens'.events) \ (DOMAIN screens.events) }

\* C38: once cancelOngoingRequests has returned, the processScreenshots call
\* that was in flight has no further effect: hasDebugged stays false, no
\* problem info is stored and neither PROBLEM_EXTRACTED nor DEBUG_SUCCESS of
\* that call is sent
C38_CancelStopsRun ==
    [][ (screens.cancelled /\ screens'.runs = screens.runs) =>
            /\ ~screens'.hasDebugged
            /\ voice'.problemInfo = voice.problemInfo
            /\ NewScreensEvents \cap {"PROBLEM_EXTRACTED", "DEBUG_SUCCESS"} = {} ]_vars

----------------------------------------------------------------------------
(* Properties of the model selector.                                       *)

\* the switches and tests of the selector in flight
Pending ==
    Cardinality({ i \in DOMAIN selector.handlers :
                      selector.handlers[i].op \in {"test", "switch"} })

\* C39: the model selector serialises its switches and tests: while
\* connectionStatus is 'testing' the Apply and the Test button are disabled,
\* at most one switch or test is in flight and the status is 'testing' while
\* it is, and the status is 'success' or 'error' whenever a switch or test
\* ends, by completing or by throwing
C39_SelectorSerialises ==
    /\ [](/\ Pending <= 1
          /\ Pending = 1 => selector.connectionStatus = "testing"
          /\ selector.connectionStatus = "testing" => ApplyDisabled /\ TestDisabled)
    /\ [][Pending' < Pending => selector'.connectionStatus \in {"success", "error"}]_vars

\* a click on Apply Changes ran to its end through loadCurrentConfig, and a
\* new test is in flight after it
C39_Witness ==
    /\ selector.last = [ op |-> "switch", outcome |-> "success" ]
    /\ Pending = 1
    /\ selector.handlers[1].op = "test"
    /\ selector.connectionStatus = "testing"

====
